---- MODULE Spec2Model ----
(***************************************************************************)
(* blobfs: a content-addressed filesystem whose working tree is mirrored   *)
(* against a remote blob store and a remote version history.               *)
(*                                                                         *)
(* The model follows cmd/blobfs-mount/blobfs-mount.go and                  *)
(* pkg/cache/cache.go.  The in-memory tree is a heap of Dir and File       *)
(* objects (Go pointers are object ids, a Go map is a separate map         *)
(* object, so that the struct copy `*f.root = *d` shares the child map as  *)
(* it does in Go).  A content hash is modelled by the canonical encoding   *)
(* it is the hash of (an injective hash).                                  *)
(***************************************************************************)
EXTENDS Integers, Sequences, FiniteSets, TLC

\* ---------------------------------------------------------------- bounds
\* how many steps (calls of a handler, starts and stops of the process,
\* commits of other hosts) a behaviour takes
MaxSteps == 6
\* highest version number of the remote track
MaxRemote == 3
\* highest number of live objects of the in-memory tree
MaxObj == 6
\* highest number of open handles of one file
MaxOpen == 2
\* longest file buffer
MaxLen == 2

\* the nil pointer / nil map
Nil == 0

\* names the kernel uses for directory entries: the files it creates, the
\* directories it makes, and both
FileNames == {"a"}
DirNames == {"b"}
Names == FileNames \cup DirNames
\* the suffix Pull gives to the remote copy of a conflicting path
ConflictedSuffix == ".conflicted"
\* file contents (a sequence of chunks); <<>> is the empty file
Contents == {<<>>, <<1>>}
\* the bytes the kernel writes
Bytes == {1}
\* extended attributes the kernel sets, and their values
XNames == {"public"}
XValues == {"1"}
\* the names of virtualXAttrs
VirtualXAttrs == {"ref", "url"}

\* ------------------------------------------------------- hashes and metas
\* meta.Meta.Json: the canonical encoding of a node; the hash is the hash of
\* this encoding.  Refs are encoded in the order they were added.
Json(m) ==
  [name |-> m.name, type |-> m.type, refs |-> m.refs, data |-> m.data,
   xattrs |-> m.xattrs]

\* meta.NewMetaFromBlob(hash, blob): the meta a stored blob decodes to
MetaFromBlob(h) ==
  [hash |-> h, name |-> h.name, type |-> h.type, refs |-> h.refs,
   data |-> h.data, xattrs |-> h.xattrs]

\* a meta whose Hash field has been set from its own encoding
Hashed(m) == [m EXCEPT !.hash = Json(m)]

\* &meta.Meta{Name: name} and friends: a meta that was never hashed
NoHash == [name |-> "", type |-> "", refs |-> <<>>, data |-> <<>>, xattrs |-> {}]

RawMeta(name, type) ==
  [hash |-> NoHash, name |-> name, type |-> type, refs |-> <<>>,
   data |-> <<>>, xattrs |-> {}]

\* Meta.IsPublic
IsPublic(m) == <<"public", "1">> \in m.xattrs

\* ---------------------------------------------------------- version tracks
\* a track of the versioned key-value store: a set of [version, ref]
HasKv(track) == track # {}

\* Get(key, -1): the record with the highest version
Latest(track) == CHOOSE r \in track : \A q \in track : q.version <= r.version

LatestVersion(track) == IF track = {} THEN 0 ELSE Latest(track).version

\* Put(key, ref, data, -1): the store stamps the next version of the key
NewVersion(track) == LatestVersion(track) + 1

\* Put(key, ref, data, version) with an explicit version is accepted when
\* the version is newer than the latest one of the key
PutOk(track, version) == version > LatestVersion(track)

PutKv(track, version, ref) ==
  IF PutOk(track, version)
  THEN track \cup {[version |-> version, ref |-> ref]}
  ELSE track

\* The program reads of the WIP track its latest record only, and the store
\* numbers the records of a key 1, 2, 3, ...: the model keeps the latest
\* record, whose version also counts the records of the track.
LatestOnly(track) == IF track = {} THEN {} ELSE {Latest(track)}

\* Versions(key, 0, -1, 0): the records in increasing version order
RECURSIVE Versions(_)
Versions(track) ==
  IF track = {} THEN <<>>
  ELSE LET lo == CHOOSE r \in track : \A q \in track : r.version <= q.version
       IN <<lo>> \o Versions(track \ {lo})

\* ------------------------------------------------------------------- heap
\* a memory state is a record
\*   heap   object id -> Dir or File object
\*   maps   map id -> set of <<name, object id>> (a Go map[string]Node)
\*   lbs    the local tier of the content store (set of hashes)
\*   rbs    the remote tier of the content store
\*   wip    the local WIP track, mirror the local remote-mirror track
\*   local, remote  the two Mounts (<<>> is a nil *Mount)
\*   root   FS.root
\*   fds    FS.openFds
\*   res    "ok", "err" (an error was returned) or "panic"
\*   saveOk every Dir.Save of the operation left what it has to (SavedRight)

FreshId(f) == CHOOSE n \in 1..(Cardinality(DOMAIN f) + 1) : n \notin DOMAIN f

\* NewDir(fs, m, parent): Children is left nil
NewDirObj(m, parent) ==
  [kind |-> "dir", meta |-> m, parent |-> parent, children |-> Nil,
   buf |-> <<>>, openCount |-> 0, updated |-> FALSE, fake |-> FALSE]

\* NewFile(fs, m, parent)
NewFileObj(m, parent) ==
  [kind |-> "file", meta |-> m, parent |-> parent, children |-> Nil,
   buf |-> <<>>, openCount |-> 0, updated |-> FALSE, fake |-> FALSE]

\* the entries of d.Children (none when the map is nil)
Entries(s, d) ==
  IF s.heap[d].children = Nil THEN {} ELSE s.maps[s.heap[d].children]

HasChild(s, d, name) == \E e \in Entries(s, d) : e[1] = name

ChildOf(s, d, name) == (CHOOSE e \in Entries(s, d) : e[1] = name)[2]

\* d.Children[name] = id on a non-nil map
SetChild(s, d, name, id) ==
  LET mid == s.heap[d].children
  IN [s EXCEPT !.maps[mid] = {e \in @ : e[1] # name} \cup {<<name, id>>}]

\* delete(d.Children, name); a no-op on a nil map
DelChild(s, d, name) ==
  LET mid == s.heap[d].children
  IN IF mid = Nil THEN s
     ELSE [s EXCEPT !.maps[mid] = {e \in @ : e[1] # name}]

\* a fresh empty map object for d.Children
WithEmptyMap(s, d) ==
  LET mid == FreshId(s.maps)
  IN [s EXCEPT !.maps = @ @@ (mid :> {}), !.heap[d].children = mid]

\* ------------------------------------------------------- content store
\* Cache.Stat: the local tier, then the remote one
Stat(s, h) == h \in s.lbs \/ h \in s.rbs

\* Cache.Put: the local tier only
Put(s, h) == [s EXCEPT !.lbs = @ \cup {h}]

\* Cache.Get succeeds when either tier holds the blob
CanGet(s, h) == h \in s.lbs \/ h \in s.rbs

\* a Cache.Get that serves the blob and keeps no local copy of it
GetUncached(s, h) == s

\* Cache.Get: a blob served by the remote tier is written to the local one
Get(s, h) == IF h \in s.lbs THEN s ELSE [s EXCEPT !.lbs = @ \cup {h}]

\* ------------------------------------------------------------ Dir.reload
\* the body of the loop of Dir.reload over d.meta.Refs
RECURSIVE ReloadRefs(_, _, _)
ReloadRefs(s, d, refs) ==
  IF refs = <<>> \/ s.res # "ok" THEN s
  ELSE LET h == Head(refs)
       IN IF ~CanGet(s, h) THEN [s EXCEPT !.res = "err"]
          ELSE LET s1 == Get(s, h)
                   m == MetaFromBlob(h)
                   id == FreshId(s1.heap)
                   obj == IF m.type = "dir" THEN NewDirObj(m, d)
                          ELSE NewFileObj(m, d)
                   s2 == [s1 EXCEPT !.heap = @ @@ (id :> obj)]
               IN ReloadRefs(SetChild(s2, d, m.name, id), d, Tail(refs))

\* Dir.reload: a fresh child map filled from the blobs d.meta.Refs names
Reload(s, d) == ReloadRefs(WithEmptyMap(s, d), d, s.heap[d].meta.refs)

\* `if d.Children == nil { d.reload() }`
EnsureLoaded(s, d) ==
  IF s.res = "ok" /\ s.heap[d].children = Nil THEN Reload(s, d) ELSE s

\* -------------------------------------------------------------- Dir.Save
\* every name a directory entry can carry in the model, in a fixed order
NameOrder ==
  <<"a", "b", "a" \o ConflictedSuffix, "b" \o ConflictedSuffix>>

Reverse(sq) == [i \in 1..Len(sq) |-> sq[Len(sq) + 1 - i]]

\* the orders in which a handler may see `range d.Children` iterate (Go leaves
\* the order of a map iteration unspecified)
Orders == {NameOrder, Reverse(NameOrder)}

\* the hashes of d's children in the order the iteration visits them
OrderedRefs(s, d, ord) ==
  LET F[i \in 0..Len(ord)] ==
        IF i = 0 THEN <<>>
        ELSE IF HasChild(s, d, ord[i])
             THEN Append(F[i - 1], s.heap[ChildOf(s, d, ord[i])].meta.hash)
             ELSE F[i - 1]
  IN F[Len(ord)]

\* the children of d in the order the iteration visits them
OrderedKids(s, d, ord) ==
  LET F[i \in 0..Len(ord)] ==
        IF i = 0 THEN <<>>
        ELSE IF HasChild(s, d, ord[i])
             THEN Append(F[i - 1], ChildOf(s, d, ord[i]))
             ELSE F[i - 1]
  IN F[Len(ord)]

\* the root branch of Dir.Save: commit a Root record to the WIP track, make
\* the directory the local Mount, copy it over *fs.root
CommitRoot(s, d) ==
  LET v == NewVersion(s.wip)
      h == s.heap[d].meta.hash
      s1 == [s EXCEPT !.wip = LatestOnly(PutKv(@, v, h)),
                      !.local = <<[node |-> d, version |-> v, ref |-> h,
                                   immutable |-> FALSE]>>]
  IN IF s1.root # Nil THEN [s1 EXCEPT !.heap[s1.root] = s1.heap[d]] ELSE s1

\* the meta Dir.Save builds: the name, the type, and a ref for every child
SavedMeta(s, d, ord) ==
  Hashed([RawMeta(s.heap[d].meta.name, "dir")
            EXCEPT !.refs = OrderedRefs(s, d, ord)])

\* Dir.Save: rebuild the meta from name and children, store its blob when
\* the content store does not hold it, then save the parent or commit
RECURSIVE SaveUp(_, _, _)
SaveUp(s, d, ord) ==
  LET m == SavedMeta(s, d, ord)
      s1 == [s EXCEPT !.heap[d].meta = m]
      s2 == IF Stat(s1, m.hash) THEN s1 ELSE Put(s1, m.hash)
  IN IF s.heap[d].parent = Nil THEN CommitRoot(s2, d)
     ELSE SaveUp(s2, s.heap[d].parent, ord)

\* d and the directories above it
RECURSIVE PathUp(_, _)
PathUp(s, d) == IF d = Nil THEN {} ELSE {d} \cup PathUp(s, s.heap[d].parent)

\* the blob of d is in the content store and lists exactly the hashes of the
\* children d holds
StoredRight(s, d) ==
  LET h == s.heap[d].meta.hash
  IN /\ CanGet(s, h)
     /\ Len(h.refs) = Cardinality(Entries(s, d))
     /\ {h.refs[i] : i \in 1..Len(h.refs)}
          = {s.heap[e[2]].meta.hash : e \in Entries(s, d)}

\* a node and everything below it in the tree
RECURSIVE Subtree(_, _)
Subtree(s, n) == {n} \cup UNION {Subtree(s, e[2]) : e \in Entries(s, n)}

\* the directories of the tree of *fs.root that hold d, d included
Holding(s, d) ==
  IF s.root = Nil THEN {}
  ELSE {x \in Subtree(s, s.root) : d \in Subtree(s, x)}

\* what a Save of d that returned nil has to leave: every directory from d up
\* to the root, along the parent fields and along the tree, stored right, and
\* the hash of the top one, which is the hash of *fs.root, in the latest
\* record of the WIP track
SavedRight(s, d) ==
  /\ \A x \in PathUp(s, d) \cup Holding(s, d) : StoredRight(s, x)
  /\ HasKv(s.wip)
  /\ \E x \in PathUp(s, d) :
       /\ s.heap[x].parent = Nil
       /\ Latest(s.wip).ref = s.heap[x].meta.hash
  /\ s.root # Nil => Latest(s.wip).ref = s.heap[s.root].meta.hash

\* a call of Dir.Save by a handler, with the record of what it left; r is the
\* state the Save returns in
SaveDir(s, d, ord) ==
  CHOOSE x \in {[r EXCEPT !.saveOk = @ /\ SavedRight(r, d)] :
                  r \in {SaveUp(s, d, ord)}} : TRUE

\* FS.initRoot: a root directory with an empty child map and an empty name
InitRoot(s, ord) ==
  LET id == FreshId(s.heap)
      s1 == [s EXCEPT !.heap = @ @@ (id :> NewDirObj(RawMeta("", ""), Nil))]
  IN SaveDir(WithEmptyMap(s1, id), id, ord)

\* FS.kvDataToDir: the root record's blob decoded into a Dir without parent;
\* <<memory state, object id>>, the id is Nil when the blob cannot be read
KvDataToDir(s, rec) ==
  IF ~CanGet(s, rec.ref) THEN <<s, Nil>>
  ELSE LET s1 == Get(s, rec.ref)
           id == FreshId(s1.heap)
       IN <<[s1 EXCEPT !.heap = @ @@ (id :> NewDirObj(MetaFromBlob(rec.ref), Nil))],
            id>>

\* a Mount built from a root record and a node
MountOf(rec, node, immutable) ==
  <<[node |-> node, version |-> rec.version, ref |-> rec.ref,
     immutable |-> immutable]>>

\* a Mount selection that prefers the local Mount whenever there is one
ActiveMountLocalFirst(s) == IF s.local # <<>> THEN s.local ELSE s.remote

\* FS.Mount: the local Mount when there is no remote one or when the local
\* version is higher, else the remote Mount
ActiveMount(s) ==
  IF s.local # <<>>
  THEN IF s.remote = <<>> \/ s.local[1].version > s.remote[1].version
       THEN s.local ELSE s.remote
  ELSE s.remote

\* ------------------------------------------------------------- the state
VARIABLES
  phase,      \* "boot": the process is not running; "run": the FS is mounted
  immutable,  \* FS.immutable, the -immutable flag of the running process
  heap, maps, \* the in-memory Dir and File objects and their child maps
  root,       \* FS.root
  kroot,      \* the root node the kernel was given by FS.Root
  local,      \* FS.local
  remote,     \* FS.remote
  fds,        \* FS.openFds
  saveOk,     \* every Dir.Save of the last operation left what it has to
  wip,        \* local kv store, key local:root:NAME (the WIP track)
  mirror,     \* local kv store, key blobfs:root:NAME (the remote mirror)
  rkv,        \* remote kv store, key blobfs:root:NAME
  lbs,        \* local tier of the content store
  rbs,        \* remote tier of the content store
  steps,      \* how many steps were taken
  last,       \* the last operation and its outcome
  sync        \* the sync goroutine, the lock FS.mu and the channel FS.sync

vars ==
  <<phase, immutable, heap, maps, root, kroot, local, remote, fds, saveOk,
    wip, mirror, rkv, lbs, rbs, steps, last, sync>>

\* the current memory state
Mem ==
  [heap |-> heap, maps |-> maps, root |-> root, kroot |-> kroot,
   local |-> local, remote |-> remote, fds |-> fds, wip |-> wip,
   mirror |-> mirror, rkv |-> rkv, lbs |-> lbs, rbs |-> rbs, res |-> "ok",
   saveOk |-> TRUE]

\* ------------------------------------------------- unreferenced objects
\* what the process and the kernel hold on to: FS.root, the kernel's root,
\* the nodes of the two Mounts, and every open file
RECURSIVE SetToSeq(_)
SetToSeq(S) ==
  IF S = {} THEN <<>>
  ELSE LET x == CHOOSE y \in S : \A z \in S : y <= z
       IN <<x>> \o SetToSeq(S \ {x})

Held(s) ==
  <<s.kroot, s.root>>
    \o [i \in 1..Len(s.local) |-> s.local[i].node]
    \o [i \in 1..Len(s.remote) |-> s.remote[i].node]
    \o SetToSeq({id \in DOMAIN s.heap : s.heap[id].openCount > 0})

\* the children of an object in the fixed order of their names, then its parent
PointsTo(s, id) ==
  LET F[i \in 0..Len(NameOrder)] ==
        IF i = 0 THEN <<>>
        ELSE IF HasChild(s, id, NameOrder[i])
             THEN Append(F[i - 1], ChildOf(s, id, NameOrder[i]))
             ELSE F[i - 1]
  IN F[Len(NameOrder)] \o <<s.heap[id].parent>>

\* the objects a pointer reaches, in the order a depth-first walk meets them
RECURSIVE Walk(_, _, _)
Walk(s, seen, todo) ==
  IF todo = <<>> THEN seen
  ELSE LET id == Head(todo)
       IN IF id = Nil \/ \E i \in 1..Len(seen) : seen[i] = id
          THEN Walk(s, seen, Tail(todo))
          ELSE Walk(s, Append(seen, id), PointsTo(s, id) \o Tail(todo))

\* the blobs something still names: a record of a version track or a node in
\* memory, and the blobs these list
RECURSIVE Below(_)
Below(h) == {h} \cup UNION {Below(h.refs[i]) : i \in 1..Len(h.refs)}

Named(s) ==
  UNION {Below(h) :
           h \in {r.ref : r \in s.wip \cup s.mirror \cup s.rkv}
                   \cup {s.heap[id].meta.hash : id \in DOMAIN s.heap}
                   \cup UNION {{s.heap[id].meta.refs[i] :
                                  i \in 1..Len(s.heap[id].meta.refs)} :
                               id \in DOMAIN s.heap}}

\* nodes are never destroyed explicitly: an object no pointer reaches is
\* dropped by the Go runtime.  Object ids carry no meaning, so the objects
\* that stay are numbered in the order of the walk.  The local tier of the
\* content store never evicts; a blob nothing names any more is one no
\* operation reads again, and the model forgets it.
Collect(s) ==
  LET live == Walk(s, <<>>, Held(s))
      n == Len(live)
      To(id) == IF id = Nil THEN Nil ELSE CHOOSE i \in 1..n : live[i] = id
      \* a child map is numbered after the first object that uses it
      MapTo(mid) ==
        IF mid = Nil THEN Nil
        ELSE CHOOSE i \in 1..n :
               /\ s.heap[live[i]].children = mid
               /\ \A j \in 1..(i - 1) : s.heap[live[j]].children # mid
      mids == {MapTo(s.heap[live[i]].children) : i \in 1..n} \ {Nil}
      Mv(m) == [m EXCEPT !.node = To(@)]
  IN [s EXCEPT
        !.heap = [i \in 1..n |->
                    [s.heap[live[i]] EXCEPT !.parent = To(@),
                                            !.children = MapTo(@)]],
        !.maps = [k \in mids |->
                    {<<e[1], To(e[2])>> :
                       e \in s.maps[s.heap[live[k]].children]}],
        !.root = To(@), !.kroot = To(@),
        !.lbs = @ \cap Named(s),
        !.local = [i \in 1..Len(s.local) |-> Mv(s.local[i])],
        !.remote = [i \in 1..Len(s.remote) |-> Mv(s.remote[i])]]

\* every directory entry carries a name of NameOrder
NamesOk(s) ==
  \A mid \in DOMAIN s.maps : \A e \in s.maps[mid] :
    \E i \in 1..Len(NameOrder) : NameOrder[i] = e[1]

\* the bounds of the model
Bounded(s) ==
  Cardinality(DOMAIN s.heap) <= MaxObj

\* the next state holds the memory state s
Becomes(s0) ==
  \E s \in {IF NamesOk(s0) THEN Collect(s0) ELSE s0} :
     /\ NamesOk(s0)
     /\ Bounded(s)
     /\ heap' = s.heap /\ maps' = s.maps /\ root' = s.root
     /\ kroot' = s.kroot /\ local' = s.local /\ remote' = s.remote
     /\ fds' = s.fds /\ wip' = s.wip /\ mirror' = s.mirror /\ rkv' = s.rkv
     /\ lbs' = s.lbs /\ rbs' = s.rbs /\ saveOk' = s.saveOk

\* ----------------------------------------------------------- FS.loadRoot
\* every record of the remote track put into the mirror track
RECURSIVE PutAll(_, _)
PutAll(track, versions) ==
  IF versions = <<>> THEN track
  ELSE PutAll(PutKv(track, Head(versions).version, Head(versions).ref),
              Tail(versions))

\* a loadRoot that never finds the remote behind
NoVersionMismatch(s) == FALSE

\* `localKv.Version > remoteKv.Version`: the mirror track is ahead of the live
\* remote
VersionMismatch(s) == LatestVersion(s.mirror) > LatestVersion(s.rkv)

\* the branch FS.loadRoot takes on the three latest records
LoadRootCase(s) ==
  LET hasL == HasKv(s.mirror)
      hasW == HasKv(s.wip)
      hasR == HasKv(s.rkv)
      lv == LatestVersion(s.mirror)
      wv == LatestVersion(s.wip)
      rv == LatestVersion(s.rkv)
  IN IF hasW /\ \/ ~hasL /\ ~hasR
                \/ hasR /\ ~hasL /\ wv > rv
                \/ hasL /\ hasR /\ wv > lv /\ wv > rv
     THEN "wip"
     ELSE IF ~hasL /\ ~hasR THEN "init"
     ELSE IF hasL /\ hasR
     THEN IF lv = rv THEN "insync"
          ELSE IF VersionMismatch(s) THEN "outofsync"
          ELSE "forward"
     ELSE IF hasR /\ ~hasL THEN "adopt"
     ELSE "none"

\* FS.loadRoot followed by `bfs.root = bfs.Mount().node` of main
LoadRootOp(s0, imm, ord) ==
  LET hasL == HasKv(s0.mirror)
      hasW == HasKv(s0.wip)
      hasR == HasKv(s0.rkv)
      pl == IF hasL THEN KvDataToDir(s0, Latest(s0.mirror)) ELSE <<s0, Nil>>
      pw == IF hasW THEN KvDataToDir(pl[1], Latest(s0.wip)) ELSE <<pl[1], Nil>>
      pr == IF hasR THEN KvDataToDir(pw[1], Latest(s0.rkv)) ELSE <<pw[1], Nil>>
      s == pr[1]
      rv == LatestVersion(s0.rkv)
      case == LoadRootCase(s0)
      loaded ==
        IF case = "wip"
        THEN [s EXCEPT !.local = MountOf(Latest(s0.wip), pw[2], imm)]
        ELSE IF case = "init"
        THEN LET s1 == InitRoot(s, ord)
                 newRoot == s1.local[1].node
                 rec == [version |-> NewVersion(s1.wip),
                         ref |-> s1.heap[newRoot].meta.hash]
             IN [s1 EXCEPT !.wip = LatestOnly(PutKv(@, rec.version, rec.ref)),
                           !.local = MountOf(rec, newRoot, FALSE)]
        ELSE IF case = "insync"
        THEN [s EXCEPT !.remote = MountOf(Latest(s0.mirror), pl[2], imm)]
        ELSE IF case = "outofsync"
        THEN [s EXCEPT !.res = "err"]
        ELSE IF case = "forward"
        THEN [s EXCEPT !.mirror = PutKv(@, rv, Latest(s0.rkv).ref),
                       !.remote = MountOf(Latest(s0.rkv), pr[2], imm)]
        ELSE IF case = "adopt"
        THEN [s EXCEPT !.mirror = PutAll(@, Versions(s0.rkv)),
                       !.remote = MountOf(Latest(s0.rkv), pr[2], imm)]
        ELSE [s EXCEPT !.res = "err"]
  IN IF loaded.res = "ok"
     THEN [loaded EXCEPT !.root = ActiveMount(loaded)[1].node,
                         !.kroot = ActiveMount(loaded)[1].node]
     ELSE loaded

\* ------------------------------------------------------ the remote side
FileHash(name, data) == Json([RawMeta(name, "file") EXCEPT !.data = data])

DirHash(name, refs) == Json([RawMeta(name, "dir") EXCEPT !.refs = refs])

\* every blob of the tree under a hash
RECURSIVE Blobs(_)
Blobs(h) == {h} \cup UNION {Blobs(h.refs[i]) : i \in 1..Len(h.refs)}

\* the trees other hosts push to the remote store, version after version
RemoteHistory ==
  << DirHash("", <<FileHash("a", <<1>>)>>),
     DirHash("", <<FileHash("a", <<1>>),
                   DirHash("b", <<DirHash("a", <<>>)>>)>>) >>

RemoteTree(version) == RemoteHistory[((version - 1) % Len(RemoteHistory)) + 1]

\* ---------------------------------------------------------- the kernel
\* the directories the kernel can address: the root it was given and what
\* Lookup and ReadDirAll have shown it below
KnownNodes(s) ==
  LET F[n \in 0..MaxObj] ==
        IF n = 0 THEN {s.kroot} \ {Nil}
        ELSE F[n - 1] \cup UNION {{e[2] : e \in Entries(s, id)} : id \in F[n - 1]}
  IN F[MaxObj]

KnownDirs(s) == {id \in KnownNodes(s) : s.heap[id].kind = "dir"}

\* the files the kernel can address: those it looked up and those it holds open
KnownFiles(s) ==
  {id \in DOMAIN s.heap :
     /\ s.heap[id].kind = "file"
     /\ id \in KnownNodes(s) \/ s.heap[id].openCount > 0}

\* --------------------------------------------------------------- actions
\* what the last step did: the operation, its outcome, and for Pull and
\* loadRoot the branch it took
Did(op, res) == [op |-> op, res |-> res, kind |-> "-"]

NoOp == Did("none", "ok")

\* the sync goroutine waits in its select, nobody holds FS.mu
SyncIdle == [pc |-> "idle", mu |-> "free", croot |-> Nil]

Init ==
  /\ phase = "boot" /\ immutable = FALSE
  /\ heap = <<>> /\ maps = <<>> /\ root = Nil /\ kroot = Nil
  /\ local = <<>> /\ remote = <<>> /\ fds = 0
  /\ wip = {} /\ mirror = {} /\ rkv = {} /\ lbs = {} /\ rbs = {}
  /\ saveOk = TRUE
  /\ steps = 0
  /\ last = NoOp
  /\ sync = SyncIdle

\* every step of the kernel, of the control API or of another host counts
Count == steps < MaxSteps /\ steps' = steps + 1

\* a call starts: it gets FS.mu when its handler asks for it
Call == Count /\ sync.mu = "free"

\* a call that runs from start to end while the sync goroutine stays where
\* it is
Tick == Call /\ UNCHANGED sync

\* what a process that stopped leaves behind: the stores, not the memory
Stopped(s) ==
  [s EXCEPT !.heap = <<>>, !.maps = <<>>, !.root = Nil, !.kroot = Nil,
            !.local = <<>>, !.remote = <<>>, !.fds = 0,
            !.saveOk = TRUE]

\* main: the process starts and loads the root; it exits when loadRoot fails
LoadRoot ==
  /\ Tick
  /\ phase = "boot"
  /\ \E imm \in BOOLEAN, ord \in Orders :
       \E s \in {LoadRootOp(Mem, imm, ord)} :
          /\ immutable' = imm
          /\ IF s.res = "ok"
             THEN phase' = "run" /\ Becomes(s)
             ELSE phase' = "boot" /\ Becomes(Stopped(s))
          /\ last' = [op |-> "loadRoot", res |-> s.res,
                       kind |-> LoadRootCase(Mem)]

\* the process is stopped (unmount, kill, crash)
Stop ==
  /\ Tick
  /\ phase = "run"
  /\ phase' = "boot"
  /\ Becomes(Stopped(Mem))
  /\ last' = Did("stop", "ok")
  /\ UNCHANGED immutable

\* another host pushes a tree: its blobs, then a newer root record
RemoteCommit ==
  /\ Count /\ UNCHANGED sync
  /\ LatestVersion(rkv) < MaxRemote
  /\ rkv' = PutKv(rkv, NewVersion(rkv), RemoteTree(NewVersion(rkv)))
  /\ rbs' = rbs \cup Blobs(RemoteTree(NewVersion(rkv)))
  /\ last' = Did("remoteCommit", "ok")
  /\ saveOk' = TRUE
  /\ UNCHANGED <<phase, immutable, heap, maps, root, kroot, local, remote,
                 fds, wip, mirror, lbs>>

\* the remote store loses its latest root record (it is restored from an
\* older copy)
RemoteRollback ==
  /\ Count /\ UNCHANGED sync
  /\ HasKv(rkv)
  /\ rkv' = rkv \ {Latest(rkv)}
  /\ last' = Did("remoteRollback", "ok")
  /\ saveOk' = TRUE
  /\ UNCHANGED <<phase, immutable, heap, maps, root, kroot, local, remote,
                 fds, wip, mirror, lbs, rbs>>

\* a rejection that comes after a record was added to the WIP track
RejectedLate(op) ==
  /\ saveOk' = TRUE
  /\ wip' = wip \cup {[version |-> NewVersion(wip), ref |-> ""]}
  /\ UNCHANGED <<heap, maps, root, kroot, local, remote, fds, mirror,
                 rkv, lbs, rbs>>
  /\ last' = Did(op, "eperm")

\* the handlers that reject every call on an immutable mount
Rejected(op) ==
  /\ saveOk' = TRUE
  /\ UNCHANGED <<heap, maps, root, kroot, local, remote, fds, wip, mirror,
                 rkv, lbs, rbs>>
  /\ last' = Did(op, "eperm")

\* Dir.Create
CreateOp(s0, d, name, ord) ==
  LET s1 == EnsureLoaded(s0, d)
      m == Hashed([RawMeta(name, "file") EXCEPT
                     !.xattrs = IF IsPublic(s1.heap[d].meta)
                                THEN {<<"public", "1">>} ELSE {}])
      s2 == IF Stat(s1, m.hash) THEN s1 ELSE Put(s1, m.hash)
      f == FreshId(s2.heap)
      s3 == [s2 EXCEPT !.heap = @ @@ (f :> NewFileObj(m, d))]
      s4 == SaveDir(SetChild(s3, d, name, f), d, ord)
  IN IF s1.res # "ok" THEN s1
     ELSE [s4 EXCEPT !.heap[f].openCount = @ + 1, !.fds = @ + 1]

Create ==
  /\ Tick
  /\ phase = "run"
  /\ \E d \in KnownDirs(Mem), name \in FileNames, ord \in Orders :
       /\ ~HasChild(EnsureLoaded(Mem, d), d, name)
       /\ IF immutable
          THEN Rejected("Create")
          ELSE \E s \in {CreateOp(Mem, d, name, ord)} :
                  Becomes(s) /\ last' = Did("Create", s.res)
  /\ UNCHANGED <<phase, immutable>>

\* Dir.Lookup and Dir.ReadDirAll: the children are loaded on first use
ReadDir ==
  /\ Tick
  /\ phase = "run"
  /\ \E d \in KnownDirs(Mem) :
       /\ heap[d].children = Nil
       /\ \E s \in {EnsureLoaded(Mem, d)} :
             Becomes(s) /\ last' = Did("ReadDir", s.res)
  /\ UNCHANGED <<phase, immutable>>

\* Dir.Mkdir: the new directory is saved, linked into d, and d is saved
MkdirOp(s0, d, name, ord) ==
  LET s1 == EnsureLoaded(s0, d)
      nd == FreshId(s1.heap)
      s2 == WithEmptyMap(
              [s1 EXCEPT !.heap = @ @@ (nd :> NewDirObj(RawMeta(name, ""), d))],
              nd)
      s3 == SaveDir(s2, nd, ord)
  IN IF s1.res # "ok" THEN s1
     ELSE IF HasChild(s1, d, name) THEN [s1 EXCEPT !.res = "eexist"]
     ELSE SaveDir(SetChild(s3, d, name, nd), d, ord)

Mkdir ==
  /\ Tick
  /\ phase = "run"
  /\ \E d \in KnownDirs(Mem), name \in DirNames, ord \in Orders :
       IF immutable THEN Rejected("Mkdir")
       ELSE \E s \in {MkdirOp(Mem, d, name, ord)} :
               Becomes(s) /\ last' = Did("Mkdir", s.res)
  /\ UNCHANGED <<phase, immutable>>

\* Dir.Remove: the entry is deleted (whether or not it exists), d is saved
RemoveOp(s0, d, name, ord) ==
  LET s1 == EnsureLoaded(s0, d)
  IN IF s1.res # "ok" THEN s1 ELSE SaveDir(DelChild(s1, d, name), d, ord)

Remove ==
  /\ Tick
  /\ phase = "run"
  /\ \E d \in KnownDirs(Mem), ord \in Orders :
       \E e \in Entries(Mem, d) :
         IF immutable THEN Rejected("Remove")
         ELSE \E s \in {RemoveOp(Mem, d, e[1], ord)} :
                 Becomes(s) /\ last' = Did("Remove", s.res)
  /\ UNCHANGED <<phase, immutable>>

\* Node.Save: File.Save saves the parent unless the mount is immutable
SaveNode(s, id, imm, ord) ==
  IF s.heap[id].kind = "dir" THEN SaveDir(s, id, ord)
  ELSE IF imm THEN s
  ELSE SaveDir(s, s.heap[id].parent, ord)

\* XAttrs[name] = value and delete(XAttrs, name)
SetX(xattrs, name, value) ==
  {x \in xattrs : x[1] # name} \cup {<<name, value>>}

DelX(xattrs, name) == {x \in xattrs : x[1] # name}

\* makePublic: the flag is set on the node and on every loaded child, each
\* node is saved after its children
RECURSIVE MakePublic(_, _, _, _, _)
MakePublicAll(s, kids, value, imm, ord) ==
  LET F[i \in 0..Len(kids)] ==
        IF i = 0 THEN s
        ELSE IF F[i - 1].res # "ok" THEN F[i - 1]
        ELSE MakePublic(F[i - 1], kids[i], value, imm, ord)
  IN F[Len(kids)]

MakePublic(s, node, value, imm, ord) ==
  LET s1 == [s EXCEPT !.heap[node].meta.xattrs =
                        IF value = "1" THEN SetX(@, "public", value)
                        ELSE DelX(@, "public")]
      kids == OrderedKids(s, node, ord)
      s2 == MakePublicAll(s1, kids, value, imm, ord)
  IN IF s2.res # "ok" THEN s2 ELSE SaveNode(s2, node, imm, ord)

\* Dir.Setxattr; it does not look at the immutable flag
DirSetxattrOp(s, d, name, value, imm, ord) ==
  IF name = "public" THEN MakePublic(s, d, value, imm, ord)
  ELSE IF name \in VirtualXAttrs THEN s
  ELSE SaveDir([s EXCEPT !.heap[d].meta.xattrs = SetX(@, name, value)], d, ord)

\* File.Setxattr: a silent no-op on an immutable mount
FileSetxattrOp(s, f, name, value, imm, ord) ==
  IF imm \/ name \in VirtualXAttrs THEN s
  ELSE SaveNode([s EXCEPT !.heap[f].meta.xattrs = SetX(@, name, value)],
                f, imm, ord)

\* handleGetxattr: the virtual attribute "ref", the two urls (built from the
\* hash), then the attributes of the meta; <<"noattr", Nil>> is ErrNoXattr
HandleGetxattr(m, name) ==
  IF name = "ref" THEN <<"ref", m.hash>>
  ELSE IF name = "url.semiprivate" THEN <<"url", m.hash>>
  ELSE IF name = "url" /\ IsPublic(m) THEN <<"url", m.hash>>
  ELSE IF \E x \in m.xattrs : x[1] = name
  THEN <<"xattr", (CHOOSE x \in m.xattrs : x[1] = name)[2]>>
  ELSE <<"noattr", Nil>>

Setxattr ==
  /\ Tick
  /\ phase = "run"
  /\ \E id \in KnownNodes(Mem), name \in XNames, value \in XValues,
        ord \in Orders :
       \E s \in {IF heap[id].kind = "dir"
                 THEN DirSetxattrOp(Mem, id, name, value, immutable, ord)
                 ELSE FileSetxattrOp(Mem, id, name, value, immutable, ord)} :
          Becomes(s) /\ last' = Did("Setxattr", s.res)
  /\ UNCHANGED <<phase, immutable>>

\* File.Open while the read of the content can fail: the counts go up first,
\* the first handle then loads the content into the buffer, and the error of
\* that read is returned as it is
OpenWith(s, f, fails) ==
  LET s1 == [s EXCEPT !.heap[f].openCount = @ + 1, !.fds = @ + 1]
      m == s.heap[f].meta
  IN IF s1.heap[f].openCount = 1 /\ (m.data # <<>> \/ m.refs # <<>>)
     THEN IF m.type = "file" /\ ~fails
          THEN [s1 EXCEPT !.heap[f].fake = TRUE, !.heap[f].buf = m.data]
          ELSE [s1 EXCEPT !.heap[f].fake = TRUE, !.res = "err"]
     ELSE s1

\* File.Open: the first handle loads the content into the buffer
OpenOp(s, f) == OpenWith(s, f, FALSE)

Open ==
  /\ Tick
  /\ phase = "run"
  /\ \E f \in KnownFiles(Mem) :
       /\ heap[f].openCount < MaxOpen
       /\ \E s \in {OpenOp(Mem, f)} :
             Becomes(s) /\ last' = Did("Open", s.res)
  /\ UNCHANGED <<phase, immutable>>

\* Open while the store can fail the read of the content
OpenFaulty ==
  /\ Tick
  /\ phase = "run"
  /\ \E f \in KnownFiles(Mem), fails \in BOOLEAN :
       /\ heap[f].openCount < MaxOpen
       /\ \E s \in {OpenWith(Mem, f, fails)} :
             Becomes(s) /\ last' = Did("Open", s.res)
  /\ UNCHANGED <<phase, immutable>>

\* copy(f.data[off:], data) followed by the append of what did not fit
Written(buf, off, data) ==
  [i \in 1..(IF off + Len(data) > Len(buf) THEN off + Len(data) ELSE Len(buf))
     |-> IF i > off /\ i <= off + Len(data) THEN data[i - off] ELSE buf[i]]

\* the widths of the integers are scaled down to the lengths of the model:
\* the largest int64, and the values `maxInt`, the largest int, has in a build
\* whose int is narrower than int64 and in a build whose int is an int64
MaxInt64 == 2 * MaxLen + 3

maxInts == {MaxLen + 1, MaxInt64}

\* File.Write: the dirty flag is set first; the new length is an int64 sum
\* that wraps around; slicing the buffer past its length panics
WriteOp(s, f, off, data, maxInt) ==
  LET s1 == [s EXCEPT !.heap[f].updated = TRUE]
      sum == off + Len(data)
      newLen == IF sum > MaxInt64 THEN sum - 2 * (MaxInt64 + 1) ELSE sum
  IN IF newLen > maxInt THEN [s1 EXCEPT !.res = "efbig"]
     ELSE IF off > Len(s.heap[f].buf) THEN [s1 EXCEPT !.res = "panic"]
     ELSE [s1 EXCEPT !.heap[f].buf = Written(@, off, data)]

\* the kernel hands Write an offset of the file or one at the end of the
\* range of an int or of an int64
Write ==
  /\ Tick
  /\ phase = "run"
  /\ \E f \in KnownFiles(Mem), off \in 0..MaxLen \cup maxInts, b \in Bytes,
        maxInt \in maxInts :
       /\ heap[f].openCount > 0
       /\ off + 1 <= MaxLen \/ off > Len(heap[f].buf)
       /\ IF immutable THEN Rejected("Write")
          ELSE \E s \in {WriteOp(Mem, f, off, <<b>>, maxInt)} :
                  /\ Becomes(s)
                  /\ last' = [op |-> "Write", res |-> s.res,
                              kind |-> IF off + 1 > maxInt THEN "toolarge"
                                       ELSE "-"]
  /\ UNCHANGED <<phase, immutable>>

\* a Release that drops the buffer whatever the number of handles
ReleaseEager(s, f, imm, ord, fault) ==
  [s EXCEPT !.heap[f].fake = FALSE, !.heap[f].buf = <<>>,
            !.heap[f].openCount = @ - 1, !.fds = @ - 1]

\* a request of the flush of Release that fails: the store of the new content
\* (uploader.PutReader) or the first request of the Save of the parent
ReleaseFaults == {"none", "put", "save"}

\* File.Release under a fault: the last handle flushes a dirty buffer into a
\* new meta, saves the parent, and drops the buffer; a flush that fails
\* returns before the buffer is dropped; the counts go down on every path
ReleaseWith(s, f, imm, ord, fault) ==
  LET o == s.heap[f]
      m2 == Hashed([RawMeta(o.meta.name, "file") EXCEPT !.data = o.buf])
      s1 == IF Stat(s, m2.hash) THEN s ELSE Put(s, m2.hash)
      s2 == SaveDir([s1 EXCEPT !.heap[f].meta = m2], o.parent, ord)
      failed == [s1 EXCEPT !.heap[f].meta = m2,
                           !.heap[o.parent].meta =
                              SavedMeta([s1 EXCEPT !.heap[f].meta = m2],
                                        o.parent, ord),
                           !.res = "err"]
      flush == ~imm /\ o.buf # <<>> /\ o.updated
      s3 == IF flush THEN [s2 EXCEPT !.heap[f].updated = FALSE] ELSE s
      s4 == IF o.openCount # 1 THEN s
            ELSE IF flush /\ fault = "put" THEN [s EXCEPT !.res = "err"]
            ELSE IF flush /\ fault = "save" THEN failed
            ELSE [s3 EXCEPT !.heap[f].fake = FALSE, !.heap[f].buf = <<>>]
  IN [s4 EXCEPT !.heap[f].openCount = @ - 1, !.fds = @ - 1]

\* File.Release when every request of the flush is answered
ReleaseOp(s, f, imm, ord) == ReleaseWith(s, f, imm, ord, "none")

Release ==
  /\ Tick
  /\ phase = "run"
  /\ \E f \in KnownFiles(Mem), ord \in Orders :
       /\ heap[f].openCount > 0
       /\ \E s \in {ReleaseOp(Mem, f, immutable, ord)} :
             Becomes(s) /\ last' = Did("Release", s.res)
  /\ UNCHANGED <<phase, immutable>>

\* Release while a request of the flush can fail
ReleaseFaulty ==
  /\ Tick
  /\ phase = "run"
  /\ \E f \in KnownFiles(Mem), ord \in Orders, fault \in ReleaseFaults :
       /\ heap[f].openCount > 0
       /\ \E s \in {ReleaseWith(Mem, f, immutable, ord, fault)} :
             Becomes(s) /\ last' = Did("Release", s.res)
  /\ UNCHANGED <<phase, immutable>>

\* the kernel never moves a directory below itself
\* Dir.Rename; it does not look at the immutable flag
RenameOp(s0, d, old, new, nd, ord) ==
  LET s1 == EnsureLoaded(s0, d)
      node == ChildOf(s1, d, old)
      m == Hashed([s1.heap[node].meta EXCEPT !.name = new])
      s2 == IF Stat(s1, m.hash) THEN s1 ELSE Put(s1, m.hash)
      s3 == DelChild([s2 EXCEPT !.heap[node].meta = m], d, old)
      s4 == SaveDir(SetChild(s3, nd, new, node), d, ord)
  IN IF s1.res # "ok" THEN s1
     ELSE IF ~HasChild(s1, d, old) THEN [s1 EXCEPT !.res = "eio"]
     ELSE IF s3.heap[nd].children = Nil THEN [s3 EXCEPT !.res = "panic"]
     ELSE IF d # nd THEN SaveDir(s4, nd, ord)
     ELSE s4

Rename ==
  /\ Tick
  /\ phase = "run"
  /\ \E d \in KnownDirs(Mem), nd \in KnownDirs(Mem), new \in Names,
        ord \in Orders :
       \E e \in Entries(Mem, d) :
         /\ nd \notin Subtree(Mem, e[2])
         /\ \E s \in {RenameOp(Mem, d, e[1], new, nd, ord)} :
               Becomes(s) /\ last' = Did("Rename", s.res)
  /\ UNCHANGED <<phase, immutable>>

\* ---------------------------------------------------------------- FS.Pull
\* a path is the sequence of its segments; filepath.Join drops an empty name
JoinPath(p, name) == IF name = "" THEN p ELSE Append(p, name)

\* the index the remote store serves for a root: the path and the hash of
\* every node of the tree.  The index is a map from path to hash: of two
\* nodes the walk meets under one path the later one stays.
RECURSIVE RemoteIndex(_, _)
RemoteIndex(h, p) ==
  LET here == JoinPath(p, h.name)
      n == IF h.type = "dir" THEN Len(h.refs) ELSE 0
      F[i \in 0..n] ==
        IF i = 0 THEN {<<here, h>>}
        ELSE LET sub == RemoteIndex(h.refs[i], here)
             IN {e \in F[i - 1] : \A x \in sub : x[1] # e[1]} \cup sub
  IN F[n]

\* FS.buildLocalIndex: [s, idx], every directory it walks is loaded
RECURSIVE BuildLocalIndex(_, _, _)
BuildLocalIndex(s0, n, p) ==
  LET here == JoinPath(p, s0.heap[n].meta.name)
      top == {<<here, s0.heap[n].meta.hash>>}
      s1 == EnsureLoaded(s0, n)
      kids == OrderedKids(s1, n, NameOrder)
      Step(acc, c) ==
        IF acc.s.res # "ok" THEN acc
        ELSE IF acc.s.heap[c].kind = "dir"
        THEN LET r == BuildLocalIndex(acc.s, c, here)
             IN [s |-> r.s, idx |-> acc.idx \cup r.idx]
        ELSE [s |-> acc.s,
              idx |-> acc.idx \cup {<<JoinPath(here, acc.s.heap[c].meta.name),
                                      acc.s.heap[c].meta.hash>>}]
      F[i \in 0..Len(kids)] ==
        IF i = 0 THEN [s |-> s1, idx |-> top] ELSE Step(F[i - 1], kids[i])
  IN IF s0.heap[n].kind # "dir" THEN [s |-> s0, idx |-> top]
     ELSE IF s1.res # "ok" THEN [s |-> s1, idx |-> {}]
     ELSE F[Len(kids)]

\* the place of a path in the order shortest first, then by name
NameIndex(name) == CHOOSE i \in 1..Len(NameOrder) : NameOrder[i] = name

PathCode(p) ==
  LET F[i \in 0..Len(p)] ==
        IF i = 0 THEN Len(p)
        ELSE F[i - 1] * (Len(NameOrder) + 1) + NameIndex(p[i])
  IN F[Len(p)]

\* the entries of an index in the order a `range` over the map visits them:
\* Go leaves it unspecified, the model takes one order or its reverse
RECURSIVE Ranged(_, _)
Ranged(idx, down) ==
  IF idx = {} THEN <<>>
  ELSE LET e == CHOOSE x \in idx :
                  \A y \in idx : IF down THEN PathCode(y[1]) <= PathCode(x[1])
                                 ELSE PathCode(x[1]) <= PathCode(y[1])
       IN <<e>> \o Ranged(idx \ {e}, down)

\* a sort that leaves the list as it is
Unsorted(sq) == sq

\* sort.Sort(ByLength(...)): more segments first
RECURSIVE ByLength(_)
ByLength(sq) ==
  IF sq = <<>> THEN <<>>
  ELSE LET i == CHOOSE k \in 1..Len(sq) :
                  /\ \A j \in 1..Len(sq) : Len(sq[j][1]) <= Len(sq[k][1])
                  /\ \A j \in 1..(k - 1) : Len(sq[j][1]) < Len(sq[k][1])
       IN <<sq[i]>> \o ByLength([j \in 1..(Len(sq) - 1) |->
                                   IF j < i THEN sq[j] ELSE sq[j + 1]])

HasPath(idx, p) == \E e \in idx : e[1] = p

\* a compareIndex that leaves the root entry in both indexes
CompareIndexWithRoot(localIndex, remoteIndex, down) ==
  [Added |-> Ranged({e \in remoteIndex : ~HasPath(localIndex, e[1])}, down),
   Conflicted |-> Ranged({e \in remoteIndex : HasPath(localIndex, e[1])
                                               /\ e \notin localIndex}, down),
   DeletedCandidates |->
     ByLength(Ranged({e \in localIndex : ~HasPath(remoteIndex, e[1])}, down))]

\* FS.compareIndex; the root entry is dropped from both indexes
CompareIndex(localIndex, remoteIndex, down) ==
  LET l == {e \in localIndex : e[1] # <<>>}
      r == {e \in remoteIndex : e[1] # <<>>}
  IN [Added |-> Ranged({e \in r : ~HasPath(l, e[1])}, down),
      Conflicted |-> Ranged({e \in r : HasPath(l, e[1]) /\ e \notin l}, down),
      DeletedCandidates |->
        ByLength(Ranged({e \in l : ~HasPath(r, e[1])}, down))]

\* FS.createNode from segment i of the path on
RECURSIVE CreateNodeFrom(_, _, _, _, _, _)
CreateNodeFrom(s0, node, path, i, cmeta, ord) ==
  LET s1 == EnsureLoaded(s0, node)
      id == FreshId(s1.heap)
      obj == IF i = Len(path) THEN NewFileObj(cmeta, node)
             ELSE NewDirObj(RawMeta(path[i], "dir"), node)
      s2 == SaveDir(SetChild([s1 EXCEPT !.heap = @ @@ (id :> obj)],
                             node, path[i], id),
                    node, ord)
  IN IF i > Len(path) \/ s1.res # "ok" THEN s1
     ELSE IF HasChild(s1, node, path[i])
     THEN IF s1.heap[ChildOf(s1, node, path[i])].kind = "dir"
          THEN CreateNodeFrom(s1, ChildOf(s1, node, path[i]), path, i + 1,
                              cmeta, ord)
          ELSE [s1 EXCEPT !.res = "panic"]
     ELSE IF i = Len(path) THEN s2
     ELSE CreateNodeFrom(s2, id, path, i + 1, cmeta, ord)

\* FS.metaFromHash and FS.createNode
CreateNode(s, path, hash, name, ord) ==
  IF s.res # "ok" THEN s
  ELSE IF ~CanGet(s, hash) THEN [s EXCEPT !.res = "err"]
  ELSE CreateNodeFrom(Get(s, hash), s.root, path, 1,
                      [MetaFromBlob(hash) EXCEPT !.name = name], ord)

\* the loop of Pull over Diff.Added
RECURSIVE AddAll(_, _, _)
AddAll(s, added, ord) ==
  IF added = <<>> \/ s.res # "ok" THEN s
  ELSE LET e == Head(added)
       IN AddAll(CreateNode(s, e[1], e[2], e[2].name, ord), Tail(added), ord)

\* path + ".conflicted"
ConflictedPath(p) ==
  [i \in 1..Len(p) |-> IF i = Len(p) THEN p[i] \o ConflictedSuffix ELSE p[i]]

\* the loop of Pull over Diff.Conflicted: the meta keeps the remote hash and
\* gets the suffixed name
RECURSIVE ConflictAll(_, _, _)
ConflictAll(s, conflicted, ord) ==
  IF conflicted = <<>> \/ s.res # "ok" THEN s
  ELSE LET e == Head(conflicted)
       IN ConflictAll(CreateNode(s, ConflictedPath(e[1]), e[2],
                                 e[2].name \o ConflictedSuffix, ord),
                      Tail(conflicted), ord)

\* FS.deleteNode from segment i of the path on
RECURSIVE DeleteNodeFrom(_, _, _, _, _)
DeleteNodeFrom(s0, node, path, i, ord) ==
  LET s1 == EnsureLoaded(s0, node)
  IN IF i > Len(path) \/ s1.res # "ok" THEN s1
     ELSE IF ~HasChild(s1, node, path[i]) THEN [s1 EXCEPT !.res = "err"]
     ELSE IF i = Len(path) THEN SaveDir(DelChild(s1, node, path[i]), node, ord)
     ELSE IF s1.heap[ChildOf(s1, node, path[i])].kind # "dir"
     THEN [s1 EXCEPT !.res = "panic"]
     ELSE DeleteNodeFrom(s1, ChildOf(s1, node, path[i]), path, i + 1, ord)

\* a loop over Diff.DeletedCandidates that calls FS.deleteNode on each
RECURSIVE DeleteAllApplied(_, _, _)
DeleteAllApplied(s, deleted, ord) ==
  IF deleted = <<>> \/ s.res # "ok" THEN s
  ELSE DeleteAllApplied(DeleteNodeFrom(s, s.root, Head(deleted)[1], 1, ord),
                        Tail(deleted), ord)

\* the loop of Pull over Diff.DeletedCandidates: it only logs
DeleteAll(s, deleted, ord) == s

\* the loop of Pull that copies the remote records into the mirror track; it
\* stops at the record of the remote Mount
RECURSIVE CopyVersions(_, _, _)
CopyVersions(track, versions, remoteMount) ==
  IF versions = <<>> THEN track
  ELSE IF remoteMount # <<>> /\ Head(versions).version = remoteMount[1].version
  THEN track
  ELSE CopyVersions(PutKv(track, Head(versions).version, Head(versions).ref),
                    Tail(versions), remoteMount)

\* `*f.root = *node`, or `f.root = node` when there is no root yet
SetRoot(s, node) ==
  IF node = Nil THEN [s EXCEPT !.res = "panic"]
  ELSE IF s.root # Nil THEN [s EXCEPT !.heap[s.root] = s.heap[node]]
  ELSE [s EXCEPT !.root = node]

\* Pull, no record in the mirror track and none in the remote track
PullInit(s, ord) ==
  LET s1 == InitRoot(s, ord)
      newRoot == s1.local[1].node
      rec == [version |-> NewVersion(s1.wip),
              ref |-> s1.heap[newRoot].meta.hash]
      s2 == [s1 EXCEPT !.wip = LatestOnly(PutKv(@, rec.version, rec.ref)),
                       !.local = MountOf(rec, newRoot, FALSE)]
  IN [s2 EXCEPT !.root = ActiveMount(s2)[1].node]

\* Pull, no record in the mirror track: every remote record is copied and the
\* remote tree becomes the working tree
PullAdopt(s, remoteNode, imm) ==
  SetRoot([s EXCEPT !.mirror = PutAll(@, Versions(s.rkv)),
                    !.remote = MountOf(Latest(s.rkv), remoteNode, imm)],
          remoteNode)

\* Pull, the merge of the remote tree into the local one
PullMerge(s0, down, ord) ==
  LET li == BuildLocalIndex(s0, s0.root, <<>>)
      diff == CompareIndex(li.idx, RemoteIndex(Latest(s0.rkv).ref, <<>>), down)
      s1 == AddAll(li.s, diff.Added, ord)
      s2 == ConflictAll(s1, diff.Conflicted, ord)
      s3 == DeleteAll(s2, diff.DeletedCandidates, ord)
  IN IF s3.res # "ok" THEN s3 ELSE SetRoot(s3, s3.local[1].node)

\* local changes were committed after the last record of the mirror track
Diverged(s) ==
  s.local # <<>> /\ s.local[1].version > LatestVersion(s.mirror)

\* a Pull that never finds the remote behind
NeverOutOfSync(s) == FALSE

\* the live remote is behind the mirror track
OutOfSync(s) == LatestVersion(s.rkv) < LatestVersion(s.mirror)

\* the branch FS.Pull takes on the latest records of the mirror track and of
\* the live remote track
PullCase(s) ==
  IF ~HasKv(s.mirror)
  THEN IF ~HasKv(s.rkv) THEN "init" ELSE "adopt"
  ELSE IF ~HasKv(s.rkv) THEN "noremote"
  ELSE IF LatestVersion(s.rkv) > LatestVersion(s.mirror)
  THEN IF Diverged(s) THEN "merge" ELSE "forward"
  ELSE IF OutOfSync(s) THEN "outofsync"
  ELSE "insync"

\* FS.Pull: [s, kind], kind names the branch taken
PullOp(s0, imm, down, ord) ==
  LET pr == IF HasKv(s0.rkv) THEN KvDataToDir(s0, Latest(s0.rkv))
            ELSE <<s0, Nil>>
      s == pr[1]
      copied == [s EXCEPT !.mirror = CopyVersions(@, Versions(s.rkv), s.remote)]
      kind == PullCase(s)
  IN [kind |-> kind,
      s |-> IF kind = "init" THEN PullInit(s, ord)
            ELSE IF kind = "adopt" THEN PullAdopt(s, pr[2], imm)
            ELSE IF kind = "merge" THEN PullMerge(copied, down, ord)
            ELSE IF kind = "forward"
            THEN SetRoot([copied EXCEPT
                            !.remote = MountOf(Latest(s.rkv), pr[2], imm)],
                         pr[2])
            ELSE IF kind = "outofsync" THEN [s EXCEPT !.res = "err"]
            ELSE s]

\* Pull is called by the sync loop and by the control API
Pull ==
  /\ Tick
  /\ phase = "run"
  /\ \E down \in BOOLEAN, ord \in Orders :
       \E r \in {PullOp(Mem, immutable, down, ord)} :
          /\ Becomes(r.s)
          /\ last' = [op |-> "Pull", res |-> r.s.res, kind |-> r.kind]
  /\ UNCHANGED <<phase, immutable>>

\* ---------------------------------------------------------------- FS.Push
\* iterDir under FS.Refs: [s, refs], every directory is loaded and the hash of
\* every node is appended, the children of a directory before the directory
RECURSIVE IterDir(_, _)
IterDir(s0, d) ==
  LET s1 == EnsureLoaded(s0, d)
      kids == OrderedKids(s1, d, NameOrder)
      Step(acc, c) ==
        IF acc.s.res # "ok" THEN acc
        ELSE IF acc.s.heap[c].kind = "dir"
        THEN LET r == IterDir(acc.s, c)
             IN [s |-> r.s, refs |-> acc.refs \o r.refs]
        ELSE [s |-> acc.s, refs |-> Append(acc.refs, acc.s.heap[c].meta.hash)]
      F[i \in 0..Len(kids)] ==
        IF i = 0 THEN [s |-> s1, refs |-> <<>>] ELSE Step(F[i - 1], kids[i])
      all == F[Len(kids)]
  IN IF s1.res # "ok" THEN [s |-> s1, refs |-> <<>>]
     ELSE [s |-> all.s, refs |-> Append(all.refs, all.s.heap[d].meta.hash)]

\* a request to the content store or to the remote track that fails during a
\* Push: the existence check, the read or the upload of the at-th ref, or the
\* commit of the root record
NoFault == [kind |-> "none", at |-> 0]

Faults ==
  {NoFault, [kind |-> "commit", at |-> 0]}
    \cup {[kind |-> k, at |-> i] :
             k \in {"stat", "get", "upload"}, i \in 1..MaxObj}

\* an abort of Push that lets the root record reach the remote track
AbortAfterCommit(s, kind) ==
  [s |-> [s EXCEPT !.res = "err",
                   !.rkv = PutKv(@, s.local[1].version, s.local[1].ref)],
   kind |-> kind]

\* `return err` in Push: what was done so far stays done
Abort(s, kind) == [s |-> [s EXCEPT !.res = "err"], kind |-> kind]

\* an upload loop that sends nothing
UploadNothing(s, refs, i, fault) == [s |-> s, kind |-> "uploaded"]

\* the upload loop of Push from the i-th ref on: a blob the remote tier lacks
\* is read and sent; a blob that cannot be read is sent empty, which stores
\* nothing readable
RECURSIVE Upload(_, _, _, _)
Upload(s, refs, i, fault) ==
  IF i > Len(refs) THEN [s |-> s, kind |-> "uploaded"]
  ELSE IF fault.kind = "stat" /\ fault.at = i THEN Abort(s, "stat")
  ELSE IF refs[i] \in s.rbs THEN Upload(s, refs, i + 1, fault)
  ELSE LET read == CanGet(s, refs[i]) /\ ~(fault.kind = "get" /\ fault.at = i)
           s1 == IF read THEN Get(s, refs[i]) ELSE s
       IN IF fault.kind = "upload" /\ fault.at = i THEN Abort(s1, "upload")
          ELSE Upload(IF read THEN [s1 EXCEPT !.rbs = @ \cup {refs[i]}] ELSE s1,
                      refs, i + 1, fault)

\* the read of a blob has failed during the upload loop: the fault is at a ref
\* the remote tier lacked when the loop came to it
Unread(s, refs, fault) ==
  /\ fault.kind = "get" /\ fault.at \in 1..Len(refs)
  /\ refs[fault.at] \notin s.rbs
  /\ \A j \in 1..(fault.at - 1) : refs[j] # refs[fault.at]

\* a Push that leaves the mirror track alone
MirrorNothing(track, croot) == track

\* the record of the local Mount put into the mirror track
MirrorRecord(track, croot) == PutKv(track, croot.version, croot.ref)

\* FS.Push past its guard, with croot the record `croot := f.local.root` read,
\* under a fault: [s, kind], kind names where Push returned, and is "get"
\* when Push went past the upload loop after the read of a blob failed
PushFrom(s0, croot, fault) ==
  LET pr == IF HasKv(s0.rkv) THEN KvDataToDir(s0, Latest(s0.rkv))
            ELSE <<s0, Nil>>
      it == IterDir(pr[1], s0.root)
      up == Upload(it.s, it.refs, 1, fault)
      s1 == up.s
      Went(kind) == IF Unread(it.s, it.refs, fault) THEN "get" ELSE kind
  IN IF HasKv(s0.rkv) /\ pr[2] = Nil THEN Abort(pr[1], "fetch")
     ELSE IF it.s.res # "ok" THEN [s |-> it.s, kind |-> "refs"]
     ELSE IF s1.res # "ok" THEN up
     ELSE IF fault.kind = "commit" \/ ~PutOk(s1.rkv, croot.version)
     THEN Abort(s1, Went("commit"))
     ELSE IF ~PutOk(s1.mirror, croot.version)
     THEN Abort([s1 EXCEPT !.rkv = PutKv(@, croot.version, croot.ref)],
                Went("mirror"))
     ELSE [s |-> [s1 EXCEPT !.rkv = PutKv(@, croot.version, croot.ref),
                            !.mirror = MirrorRecord(@, croot)],
           kind |-> Went("pushed")]

\* the guard of FS.Push: "nil" when there is no local Mount to read,
\* "nochange" when the active Mount is not the local one, "go" otherwise
PushGuard(s0) ==
  IF s0.local = <<>> THEN "nil"
  ELSE IF ActiveMount(s0)[1].ref # s0.local[1].ref THEN "nochange"
  ELSE "go"

\* FS.Push under a fault
PushWith(s0, fault) ==
  IF PushGuard(s0) = "nil"
  THEN [s |-> [s0 EXCEPT !.res = "panic"], kind |-> "nil"]
  ELSE IF PushGuard(s0) = "nochange" THEN [s |-> s0, kind |-> "nochange"]
  ELSE PushFrom(s0, s0.local[1], fault)

\* FS.Push when every request to the remote store is answered
PushOp(s0) == PushWith(s0, NoFault)

\* Push is called by the sync loop and by the control API
Push ==
  /\ Tick
  /\ phase = "run"
  /\ \E r \in {PushOp(Mem)} :
        /\ Becomes(r.s)
        /\ last' = [op |-> "Push", res |-> r.s.res, kind |-> r.kind]
  /\ UNCHANGED <<phase, immutable>>

\* Push while requests to the remote store can fail
PushFaulty ==
  /\ Tick
  /\ phase = "run"
  /\ \E fault \in Faults :
       \E r \in {PushWith(Mem, fault)} :
          /\ Becomes(r.s)
          /\ last' = [op |-> "Push", res |-> r.s.res, kind |-> r.kind]
  /\ UNCHANGED <<phase, immutable>>

Next ==
  \/ LoadRoot \/ Stop \/ RemoteCommit \/ RemoteRollback \/ Pull \/ Push
  \/ Create \/ ReadDir \/ Mkdir \/ Remove \/ Setxattr \/ Rename
  \/ Open \/ Write \/ Release

Spec == Init /\ [][Next]_vars

\* the behaviours in which the stores can fail a request of Push, of the
\* flush of Release or of the load of Open; the tree is built by Create and
\* Mkdir
NextFaulty ==
  \/ LoadRoot \/ Stop \/ RemoteCommit \/ Pull \/ PushFaulty
  \/ Create \/ Mkdir \/ OpenFaulty \/ Write \/ ReleaseFaulty

SpecFaulty == Init /\ [][NextFaulty]_vars

\* ------------------------------------------------- the sync goroutine
\* The goroutine of main: `for { select { case <-bfs.sync: Pull(); Push(nil) } }`.
\* Its position is sync.pc:
\*   "idle"     it waits in the select
\*   "fetch"    it is in Pull, the request for the latest remote record is out
\*   "pulling"  it is in Pull, the remote record is there, the rest is to do
\*   "push"     Pull has returned, Push is about to be called
\*   "refs"     it is in Push, past the guard and past `croot := f.local.root`,
\*              and calls Refs, which asks for FS.mu
\* sync.mu is "handler" while a handler holds FS.mu and waits to send on the
\* channel, which has no buffer; sync.croot is the record Push has read.
\* Neither Pull nor Push asks for FS.mu; Refs, called by Push, does.

\* everything but the sync goroutine and the step counter
memory ==
  <<phase, immutable, heap, maps, root, kroot, local, remote, fds, saveOk,
    wip, mirror, rkv, lbs, rbs>>

\* File.Setxattr of "public": under FS.mu the attribute is set and the file
\* saved, then the handler sends on the channel; the deferred Unlock runs
\* when the send is through
SetPublic ==
  /\ Call
  /\ phase = "run"
  /\ \E f \in KnownFiles(Mem), value \in XValues, ord \in Orders :
       \E s \in {FileSetxattrOp(Mem, f, "public", value, immutable, ord)} :
          /\ Becomes(s)
          /\ last' = Did("Setxattr", s.res)
          /\ sync' = IF immutable \/ s.res # "ok" THEN sync
                     ELSE IF sync.pc = "idle" THEN [sync EXCEPT !.pc = "fetch"]
                     ELSE [sync EXCEPT !.mu = "handler"]
  /\ UNCHANGED <<phase, immutable>>

\* the goroutine is back in its select and takes what a waiting handler
\* sends: the handler returns and unlocks
SyncReceive ==
  /\ sync.pc = "idle" /\ sync.mu = "handler"
  /\ sync' = [sync EXCEPT !.pc = "fetch", !.mu = "free"]
  /\ UNCHANGED <<memory, steps, last>>

\* Pull: `f.rkv.Get(fsName, -1)` returns
SyncPullGet ==
  /\ sync.pc = "fetch"
  /\ sync' = [sync EXCEPT !.pc = "pulling"]
  /\ UNCHANGED <<memory, steps, last>>

\* what the return of Pull is to the goroutine
PullReturns == sync.pc = "pulling" /\ sync' = [sync EXCEPT !.pc = "push"]

\* what the return of a Push that went past its guard is to the goroutine;
\* Refs needs FS.mu
PushReturns ==
  /\ sync.pc = "refs" /\ sync.mu = "free"
  /\ sync' = [sync EXCEPT !.pc = "idle", !.croot = Nil]

\* Pull: everything after the latest remote record was fetched
SyncPullRest ==
  /\ PullReturns
  /\ \E down \in BOOLEAN, ord \in Orders :
       \E r \in {PullOp(Mem, immutable, down, ord)} :
          /\ Becomes(r.s)
          /\ last' = [op |-> "Pull", res |-> r.s.res, kind |-> r.kind]
  /\ UNCHANGED <<phase, immutable, steps>>

\* Push: the guard, and the read of the record of the local Mount
SyncPushHead ==
  /\ sync.pc = "push"
  /\ IF PushGuard(Mem) = "go"
     THEN /\ sync' = [sync EXCEPT !.pc = "refs",
                                  !.croot = [version |-> local[1].version,
                                             ref |-> local[1].ref]]
          /\ last' = last
     ELSE /\ sync' = [sync EXCEPT !.pc = "idle"]
          /\ last' = [op |-> "Push",
                      res |-> IF PushGuard(Mem) = "nil" THEN "panic" ELSE "ok",
                      kind |-> PushGuard(Mem)]
  /\ UNCHANGED <<memory, steps>>

\* Push: Refs under FS.mu, then the uploads and the commit of the record read
SyncPushRest ==
  /\ PushReturns
  /\ \E r \in {PushFrom(Mem, sync.croot, NoFault)} :
        /\ Becomes(r.s)
        /\ last' = [op |-> "Push", res |-> r.s.res, kind |-> r.kind]
  /\ UNCHANGED <<phase, immutable, steps>>

\* a commit of another host that does not fall between the fetch of the
\* latest remote record by Pull and the rest of Pull, which goes on with the
\* record it fetched
RemoteCommitApart == sync.pc # "pulling" /\ RemoteCommit

\* the behaviours of a mounted filesystem whose files are created, looked up
\* and made public while the sync goroutine runs step by step
NextSync ==
  \/ LoadRoot \/ RemoteCommitApart \/ ReadDir \/ Create \/ SetPublic
  \/ SyncReceive \/ SyncPullGet \/ SyncPullRest \/ SyncPushHead \/ SyncPushRest

SpecSync == Init /\ [][NextSync]_vars

\* every request to the stores returns and the scheduler lets a goroutine
\* that can go on do so: the sync goroutine takes each of its steps when it
\* stays possible (for the return of Push: when FS.mu stays free)
SpecSyncLive ==
  /\ Init /\ [][NextSync]_vars
  /\ WF_vars(SyncReceive) /\ WF_vars(SyncPullGet) /\ WF_vars(SyncPushHead)
  /\ WF_sync(PullReturns) /\ WF_sync(PushReturns)


\* ======================================================= views of a state
\* the entries a directory shows once it is loaded from these refs
RECURSIVE StoredEntries(_, _)
StoredEntries(refs, p) ==
  UNION {LET h == refs[i]
             here == Append(p, h.name)
         IN {[path |-> here, hash |-> h,
              kind |-> IF h.type = "dir" THEN "dir" ELSE "file"]}
              \cup (IF h.type = "dir" THEN StoredEntries(h.refs, here) ELSE {})
         : i \in 1..Len(refs)}

\* the entries below directory d: its children in memory, or the ones its
\* meta names when it has not been loaded yet
RECURSIVE TreeEntries(_, _, _)
TreeEntries(s, d, p) ==
  IF s.heap[d].children = Nil THEN StoredEntries(s.heap[d].meta.refs, p)
  ELSE UNION {LET c == e[2]
                  here == Append(p, e[1])
              IN {[path |-> here, hash |-> s.heap[c].meta.hash,
                   kind |-> s.heap[c].kind]}
                   \cup (IF s.heap[c].kind = "dir"
                         THEN TreeEntries(s, c, here) ELSE {})
              : e \in Entries(s, d)}

\* the tree served from FS.root
WorkingTree == IF root = Nil THEN {} ELSE TreeEntries(Mem, root, <<>>)

\* the tree of the latest record of the remote track
RemoteEntries ==
  IF HasKv(rkv) THEN StoredEntries(Latest(rkv).ref.refs, <<>>) ELSE {}

\* what FS.Mount returns
Active == ActiveMount(Mem)

\* the record of the local Mount is neither on the remote track nor mirrored
Unpushed ==
  /\ local # <<>>
  /\ [version |-> local[1].version, ref |-> local[1].ref] \in wip
  /\ [version |-> local[1].version, ref |-> local[1].ref] \notin rkv \cup mirror

\* there is no local Mount, or its version is not above the mirror track
NoUnpushed ==
  \/ local = <<>>
  \/ HasKv(mirror) /\ local[1].version <= LatestVersion(mirror)

\* the live remote holds a version the mirror track has not seen
RemoteNewer == HasKv(rkv) /\ LatestVersion(rkv) > LatestVersion(mirror)

\* the handlers that end in a Save
SavingOps == {"Create", "Mkdir", "Remove", "Rename", "Setxattr", "Release"}

\* names, kinds and file contents of the working tree, without the hashes of
\* the directories
Shape ==
  {[path |-> e.path, kind |-> e.kind,
    hash |-> IF e.kind = "file" THEN e.hash ELSE NoHash] : e \in WorkingTree}

\* ================================================================= claims
\* C1: when the local Mount holds a WIP version that was not pushed and the
\* remote has a newer version, every file of the working tree before Pull is
\* still in it after Pull, with its own content
C1_PullKeepsUnpushedFiles ==
  [][(last'.op = "Pull" /\ phase = "run" /\ Unpushed /\ RemoteNewer)
       => \A e \in WorkingTree : e.kind = "file" => e \in WorkingTree']_vars

\* C2: after a merging Pull, a file that was at the same path locally and
\* remotely with different hashes is at that path with the local hash, and the
\* remote one is at path + ".conflicted"
C2_ConflictKeepsBoth ==
  [][(last'.op = "Pull" /\ last'.kind = "merge")
       => \A l \in WorkingTree, r \in RemoteEntries :
            (l.path = r.path /\ l.kind = "file" /\ r.kind = "file"
               /\ l.hash # r.hash)
              => /\ l \in WorkingTree'
                 /\ [path |-> ConflictedPath(l.path), hash |-> r.hash,
                     kind |-> "file"] \in WorkingTree']_vars

\* C3: after a merging Pull that succeeded, every remote path that was not in
\* the working tree is in it with the remote type, a file with the remote hash
C3_AddedAppears ==
  [][(last'.op = "Pull" /\ last'.kind = "merge" /\ last'.res = "ok")
       => \A r \in RemoteEntries :
            (\A l \in WorkingTree : l.path # r.path)
              => \E x \in WorkingTree' :
                   /\ x.path = r.path /\ x.kind = r.kind
                   /\ (r.kind = "file" => x.hash = r.hash)]_vars

C5_FastForward ==
  [][(last'.op = "Pull" /\ phase = "run" /\ NoUnpushed /\ RemoteNewer)
       => /\ last'.res = "ok"
          /\ WorkingTree' = RemoteEntries
          /\ heap'[root'].meta.hash = Latest(rkv).ref
          /\ remote' # <<>> /\ Active' = remote'
          /\ remote'[1].version = Latest(rkv).version
          /\ remote'[1].ref = Latest(rkv).ref
          /\ \A x \in WorkingTree' : x.path[Len(x.path)] \in Names]_vars

\* a Pull has fast-forwarded past a local Mount that was not ahead
C5_Witness ==
  /\ last.op = "Pull" /\ last.kind = "forward" /\ last.res = "ok"
  /\ local # <<>> /\ Active = remote
  /\ WorkingTree = RemoteEntries /\ WorkingTree # {}

\* C6: when the latest record of the live remote track is older than the
\* latest record of the mirror track, Pull returns an error and the tree, both
\* Mounts and both local tracks are what they were
C6_OutOfSyncChangesNothing ==
  [][(last'.op = "Pull" /\ phase = "run" /\ HasKv(rkv)
        /\ LatestVersion(rkv) < LatestVersion(mirror))
       => /\ last'.res = "err" /\ last'.kind = "outofsync"
          /\ WorkingTree' = WorkingTree
          /\ UNCHANGED <<heap, maps, root, local, remote, wip, mirror>>]_vars

\* a Pull has found the live remote behind the mirror track
C6_Witness ==
  /\ last.op = "Pull" /\ last.kind = "outofsync"
  /\ HasKv(rkv) /\ LatestVersion(rkv) < LatestVersion(mirror)
  /\ WorkingTree # {}

\* C7: when a Save returns nil, every directory from the saved one up to
\* the root has its blob in the content store, the blob lists exactly the
\* hashes of the children the directory holds, and the latest record of the
\* WIP track holds the hash of the root; it is so for every Save of every
\* operation
C7_SaveStoresThePath == saveOk

\* C8: after a handler that committed a new WIP record, FS.Mount returns the
\* local Mount and that Mount carries the hash and the version just committed
C8_CommitActivatesLocal ==
  [][(last'.op \in SavingOps /\ last'.res = "ok" /\ ~immutable
        /\ wip' # wip)
       => /\ local' # <<>> /\ Active' = local'
          /\ local'[1].ref = Latest(wip').ref
          /\ local'[1].version = Latest(wip').version]_vars

\* C9: a second Save of a directory right after a first one, the children
\* visited in the same order, gives the same root hash, stores no further blob
\* and commits no further record on the WIP track
C9_SaveTwice ==
  phase = "run"
    => \A d \in KnownDirs(Mem), ord \in Orders :
         LET s1 == SaveDir(Mem, d, ord)
             s2 == SaveDir(s1, d, ord)
         IN (s1.res = "ok" /\ s2.res = "ok")
              => /\ s2.heap[s2.root].meta.hash = s1.heap[s1.root].meta.hash
                 /\ s2.lbs = s1.lbs
                 /\ s2.wip = s1.wip

\* C10: the hash Save computes for a directory does not depend on the order
\* in which the child mapping is iterated
C10_HashIgnoresOrder ==
  phase = "run"
    => \A d \in KnownDirs(Mem), o1 \in Orders, o2 \in Orders :
         SavedMeta(Mem, d, o1).hash = SavedMeta(Mem, d, o2).hash

\* C11: while the process runs there is an active Mount, and FS.Mount returns
\* the only Mount there is, else the one with the higher root version, the
\* local one when the versions are equal
C11_MountSelection ==
  phase = "run"
    => /\ Active # <<>>
       /\ Active = IF local = <<>> THEN remote
                   ELSE IF remote = <<>> THEN local
                   ELSE IF local[1].version >= remote[1].version THEN local
                   ELSE remote

\* the latest WIP record is above what the track holds, or the track is empty
WipAbove(track) == track = {} \/ LatestVersion(track) < LatestVersion(wip)

\* C12: when a WIP record exists and each of the mirror track and the live
\* remote track is empty or below it, loadRoot succeeds and the tree of the
\* WIP record is the local Mount and the active one
C12_LoadRootWipAhead ==
  [][(last'.op = "loadRoot" /\ HasKv(wip) /\ WipAbove(mirror) /\ WipAbove(rkv))
       => /\ last'.res = "ok" /\ phase' = "run"
          /\ local' # <<>> /\ Active' = local'
          /\ local'[1].ref = Latest(wip).ref
          /\ local'[1].version = Latest(wip).version
          /\ root' = local'[1].node
          /\ heap'[root'].meta.hash = Latest(wip).ref]_vars

\* the hash of a root directory without children
EmptyRootHash == DirHash("", <<>>)

\* C13: when the WIP track, the mirror track and the live remote track are
\* empty, loadRoot makes an empty root, leaves it as the one record of the WIP
\* track, with version 1, and makes it the local Mount, which is active
C13_LoadRootFresh ==
  [][(last'.op = "loadRoot" /\ wip = {} /\ mirror = {} /\ rkv = {})
       => /\ last'.res = "ok" /\ phase' = "run"
          /\ wip' = {[version |-> 1, ref |-> EmptyRootHash]}
          /\ local' # <<>> /\ Active' = local'
          /\ local'[1].ref = EmptyRootHash /\ local'[1].version = 1
          /\ root' = local'[1].node
          /\ WorkingTree' = {}]_vars

\* C14: when the mirror track and the live remote track both hold a record,
\* the WIP record is not above both, and the mirror track is ahead of the live
\* remote, loadRoot fails with the out-of-sync error, no Mount is active and
\* the two local version tracks are what they were
C14_LoadRootOutOfSync ==
  [][(last'.op = "loadRoot" /\ HasKv(mirror) /\ HasKv(rkv)
        /\ ~(HasKv(wip) /\ WipAbove(mirror) /\ WipAbove(rkv))
        /\ LatestVersion(mirror) > LatestVersion(rkv))
       => /\ last'.res = "err" /\ last'.kind = "outofsync"
          /\ phase' = "boot"
          /\ local' = <<>> /\ remote' = <<>> /\ root' = Nil
          /\ UNCHANGED <<wip, mirror>>]_vars

\* loadRoot has found the live remote behind the mirror track
C14_Witness ==
  /\ last.op = "loadRoot" /\ last.kind = "outofsync" /\ last.res = "err"
  /\ HasKv(rkv) /\ LatestVersion(mirror) > LatestVersion(rkv)
  /\ local = <<>> /\ remote = <<>>

\* C15: when the mirror track and the live remote track both hold a record,
\* the WIP record is not above both, and the live remote is ahead of the
\* mirror track, loadRoot succeeds, the mirror track then holds every remote
\* record above its former latest one, and the tree of the latest remote
\* record is the remote Mount, which is active
C15_LoadRootCopiesAll ==
  [][(last'.op = "loadRoot" /\ HasKv(mirror) /\ HasKv(rkv)
        /\ ~(HasKv(wip) /\ WipAbove(mirror) /\ WipAbove(rkv))
        /\ LatestVersion(rkv) > LatestVersion(mirror))
       => /\ last'.res = "ok" /\ phase' = "run"
          /\ \A r \in rkv : r.version > LatestVersion(mirror) => r \in mirror'
          /\ remote' # <<>> /\ Active' = remote'
          /\ remote'[1].ref = Latest(rkv).ref
          /\ remote'[1].version = Latest(rkv).version
          /\ root' = remote'[1].node
          /\ heap'[root'].meta.hash = Latest(rkv).ref]_vars

\* the WIP record is above the mirror track and the live remote track
WipAhead == HasKv(wip) /\ WipAbove(mirror) /\ WipAbove(rkv)

\* decision case 4: the WIP record is not ahead and the mirror track is above
\* the live remote track (an empty track is below every record)
MirrorAhead ==
  ~WipAhead /\ HasKv(mirror) /\ LatestVersion(mirror) > LatestVersion(rkv)

\* C16: whatever records the WIP track, the mirror track and the live remote
\* track hold, unless the mirror track is ahead of the live remote (case 4),
\* loadRoot succeeds, there is an active Mount, and FS.root is its root
\* directory
C16_LoadRootActivatesOne ==
  [][(last'.op = "loadRoot" /\ ~MirrorAhead)
       => /\ last'.res = "ok" /\ phase' = "run"
          /\ Active' # <<>>
          /\ root' # Nil /\ root' = Active'[1].node]_vars

\* C17: a Push while the active Mount is not the local Mount, or while there
\* is no local Mount, returns success, uploads no blob and commits no record
\* to the remote track nor to the mirror track
C17_PushOnlyFromLocal ==
  [][(last'.op = "Push" /\ phase = "run" /\ (local = <<>> \/ Active # local))
       => /\ last'.res = "ok"
          /\ rbs' = rbs /\ rkv' = rkv /\ mirror' = mirror]_vars

\* C18: when Push has committed a root record to the remote track, the blob
\* of every node of the tree of that record is in the remote tier of the
\* content store
C18_SnapshotComplete ==
  [][(last'.op = "Push" /\ rkv' # rkv)
       => /\ Latest(rkv') \notin rkv
          /\ Blobs(Latest(rkv').ref) \subseteq rbs']_vars

\* the root record of the local Mount
LocalRecord == [version |-> local[1].version, ref |-> local[1].ref]

\* C19: after a Push that succeeded while the local Mount was the active one,
\* the latest record of the remote track and the latest record of the mirror
\* track are the record of the local Mount: its hash and its version
C19_PushCommitsBoth ==
  [][(last'.op = "Push" /\ last'.res = "ok" /\ phase = "run"
        /\ local # <<>> /\ Active = local)
       => /\ HasKv(rkv') /\ Latest(rkv') = LocalRecord
          /\ HasKv(mirror') /\ Latest(mirror') = LocalRecord
          /\ local' # <<>> /\ LocalRecord' = LocalRecord]_vars

\* a Push of a tree with entries has succeeded from the local Mount
C19_Witness ==
  /\ last.op = "Push" /\ last.res = "ok" /\ last.kind = "pushed"
  /\ local # <<>> /\ Active = local
  /\ Latest(rkv) = LocalRecord /\ Latest(mirror) = LocalRecord
  /\ WorkingTree # {}

\* C20: when an existence check, an upload or the commit of the root record
\* fails during Push, Push returns an error and the remote track is what it
\* was before the Push
C20_FailedPushKeepsRemote ==
  [][(last'.op = "Push" /\ last'.kind \in {"stat", "upload", "commit"})
       => /\ last'.res = "err"
          /\ rkv' = rkv]_vars

\* a Push has failed on the upload of a blob, after the remote track had
\* records and with a record of its own to commit
C20_Witness ==
  /\ last.op = "Push" /\ last.kind = "upload" /\ last.res = "err"
  /\ HasKv(rkv) /\ local # <<>> /\ LocalRecord \notin rkv
  /\ PutOk(rkv, local[1].version)


\* C21: a Push in which the read of a blob the remote tier lacks has failed
\* returns an error and commits no record to the remote track
C21_MissingBlobAbortsPush ==
  [][(last'.op = "Push" /\ last'.kind = "get")
       => /\ last'.res = "err"
          /\ rkv' = rkv]_vars

\* the hashes Push walks over in this state
PushRefs ==
  {IterDir(Mem, root).refs[i] : i \in 1..Len(IterDir(Mem, root).refs)}

\* C22: a Push that directly follows a successful Push finds every hash of its
\* walk in the remote tier, uploads nothing and leaves the latest version of
\* the remote track what it was
C22_PushTwice ==
  [][(last.op = "Push" /\ last.kind = "pushed" /\ last'.op = "Push")
       => /\ PushRefs \subseteq rbs
          /\ rbs' = rbs
          /\ LatestVersion(rkv') = LatestVersion(rkv)
          /\ rkv' = rkv]_vars

\* a Push has run from the local Mount whose record the remote track and the
\* mirror track already held, over a tree with entries
C22_Witness ==
  /\ last.op = "Push" /\ last.kind = "commit"
  /\ local # <<>> /\ Active = local
  /\ Latest(rkv) = LocalRecord /\ Latest(mirror) = LocalRecord
  /\ WorkingTree # {} /\ PushRefs \subseteq rbs

\* C23: a Push from the local Mount while the remote track holds a version
\* above the latest one of the mirror track, a commit of another writer this
\* process has not seen, returns an error and adds no record to the remote
\* track
C23_PushRefusedOnRace ==
  [][(last'.op = "Push" /\ phase = "run" /\ local # <<>> /\ Active = local
        /\ LatestVersion(rkv) > LatestVersion(mirror))
       => /\ last'.res = "err"
          /\ rkv' = rkv]_vars

\* C24: on an immutable mount Write, Create, Mkdir and Remove return a
\* permission error and change nothing: not the working tree, not a buffer or
\* a dirty flag of a file, not the content store, not the WIP track
C24_ImmutableRejects ==
  [][(last'.op \in {"Write", "Create", "Mkdir", "Remove"} /\ immutable)
       => /\ last'.res = "eperm"
          /\ UNCHANGED <<heap, maps, root, local, remote, fds>>
          /\ WorkingTree' = WorkingTree
          /\ lbs' = lbs /\ rbs' = rbs /\ wip' = wip]_vars

\* a Write was rejected on an immutable mount, on a file with an open handle
C24_Witness ==
  /\ immutable /\ last.op = "Write" /\ last.res = "eperm"
  /\ \E f \in KnownFiles(Mem) : heap[f].openCount > 0

\* C25: on an immutable mount a Setxattr of an attribute that is not virtual
\* returns a permission error and changes neither the attributes and hashes
\* of the nodes nor the WIP track
C25_ImmutableSetxattr ==
  [][(last'.op = "Setxattr" /\ immutable)
       => /\ last'.res = "eperm"
          /\ heap' = heap
          /\ wip' = wip]_vars

\* what a whole read of f returns through a handle opened after the bytes b
\* were written at offset 0 through the only handle of f and that handle was
\* released; r is the state after the Release
ReadBack(s, f, b, ord) ==
  CHOOSE x \in {[r |-> r, o |-> OpenOp(r, f)] :
                  r \in {ReleaseOp(w, f, FALSE, ord) :
                           w \in {WriteOp(s, f, 0, b, MaxInt64)}}} : TRUE

\* the hash of f is listed by the stored meta of its parent
ListedByParent(s, f) ==
  LET h == s.heap[s.heap[f].parent].meta.hash
  IN \E i \in 1..Len(h.refs) : h.refs[i] = s.heap[f].meta.hash

\* C26: on a mutable mount, when the bytes B are written from offset 0
\* through the only handle of a file, the first write through that handle,
\* and the handle is released, a new Open
\* followed by a read of the whole file gives B, the hash of the file is that
\* of the node holding B, the parent lists it, and the path is saved up to the
\* root record of the WIP track
C26_RoundTrip ==
  (phase = "run" /\ ~immutable)
    => \A f \in KnownFiles(Mem) : \A b \in Bytes, ord \in Orders :
         (heap[f].openCount = 1 /\ ~heap[f].updated)
           => \A rt \in {ReadBack(Mem, f, <<b>>, ord)} :
                 /\ rt.o.res = "ok"
                 /\ rt.o.heap[f].buf = <<b>>
                 /\ rt.r.heap[f].meta.hash = FileHash(heap[f].meta.name, <<b>>)
                 /\ ListedByParent(rt.r, f)
                 /\ SavedRight(rt.r, heap[f].parent)

\* C27: a File without an open handle holds no buffer and no reader
C27_NoBufferWithoutHandle ==
  \A f \in DOMAIN heap :
    (heap[f].kind = "file" /\ heap[f].openCount = 0)
      => heap[f].buf = <<>> /\ ~heap[f].fake

\* the files with an open handle, those with a reader, and the open files
\* with writes that were not flushed
Opened == {f \in DOMAIN heap : heap[f].kind = "file" /\ heap[f].openCount > 0}

Loaded == {f \in DOMAIN heap : heap[f].kind = "file" /\ heap[f].fake}

Dirty == {f \in Opened : heap[f].updated}

\* an Open or a Release of a file other handles hold open only counts
OnlyCounts ==
  \A f \in Opened :
    /\ OpenOp(Mem, f)
         = [Mem EXCEPT !.heap[f].openCount = @ + 1, !.fds = @ + 1]
    /\ heap[f].openCount > 1
         => \A ord \in Orders :
              ReleaseOp(Mem, f, immutable, ord)
                = [Mem EXCEPT !.heap[f].openCount = @ - 1, !.fds = @ - 1]

\* a file gets a reader only in an Open of a file no handle held open, and
\* the writes of a file are flushed only in a Release of its last handle
LoadAndFlush ==
  /\ Cardinality(Loaded') > Cardinality(Loaded)
       => /\ last'.op = "Open"
          /\ Cardinality(Opened') = Cardinality(Opened) + 1
  /\ (Cardinality(Dirty') < Cardinality(Dirty) /\ last'.op # "stop")
       => /\ last'.op = "Release"
          /\ Cardinality(Opened') = Cardinality(Opened) - 1

\* C28: content is loaded into the buffer of a file only by an Open that takes
\* its handle count from 0 to 1; a buffer is flushed only by a Release that
\* takes the count from 1 to 0; a Release while other handles remain open
\* flushes nothing, commits nothing to the WIP track and keeps the buffer
C28_LoadAndFlushAtTheEdges == []OnlyCounts /\ [][LoadAndFlush]_vars

\* one of two handles of a file with unflushed writes has been released
C28_Witness ==
  /\ last.op = "Release" /\ last.res = "ok"
  /\ \E f \in Dirty : heap[f].openCount = 1 /\ heap[f].buf # <<>>

\* C29: while the sync goroutine is between two steps of Pull or between two
\* steps of Push, the next step is one of the goroutine: no call of the
\* kernel runs in between
C29_SyncExcludesKernel ==
  [][(sync.pc \in {"pulling", "refs"}) => sync'.pc # sync.pc]_vars

\* C30: a handler that waits to send on the sync channel returns in the end,
\* and a sync goroutine that runs Pull and Push comes back to its select
C30_NoDeadlock ==
  /\ (sync.mu = "handler") ~> (sync.mu = "free")
  /\ (sync.pc # "idle") ~> (sync.pc = "idle")

\* C31: Cache.Get returns the blob exactly when one of the two tiers holds it;
\* a blob it has served is in the local tier afterwards, so that the next Get
\* finds it there, and the remote tier is what it was; when no tier holds the
\* blob Get fails and the callers go on from the store they had.  Cache.Put
\* adds the blob to the local tier and leaves the remote tier alone.
C31_CacheGetPut ==
  LET s == Mem
      CacheGet(h) == IF CanGet(s, h) THEN [s |-> Get(s, h), err |-> FALSE]
                     ELSE [s |-> s, err |-> TRUE]
  IN \A h \in Named(s) \cup UNION {Blobs(RemoteHistory[i]) :
                                      i \in 1..Len(RemoteHistory)} :
       LET r == CacheGet(h)
       IN /\ r.err <=> (h \notin lbs /\ h \notin rbs)
          /\ r.err => r.s.lbs = lbs
          /\ ~r.err => /\ r.s.lbs = lbs \cup {h}
                       /\ Get(r.s, h) = r.s
          /\ r.s.rbs = rbs
          /\ [r.s EXCEPT !.lbs = lbs] = s
          /\ Put(s, h) = [s EXCEPT !.lbs = lbs \cup {h}]

\* a Pull has fetched the root of a remote tree: that blob is in both tiers,
\* a blob below it in the remote tier only, and a blob of a tree no host has
\* pushed yet in neither
C31_Witness ==
  /\ last.op = "Pull" /\ last.res = "ok"
  /\ \E h \in rbs : h \in lbs /\ \E k \in Blobs(h) : k \notin lbs /\ k \in rbs
  /\ \E i \in 1..Len(RemoteHistory) :
       RemoteHistory[i] \notin lbs \cup rbs

\* C32: every node of the working tree carries the hash of the encoding of
\* the name, the attributes, the extended attributes and the refs its meta
\* holds now, and the refs of a directory whose children are loaded are the
\* hashes of these children
C32_HashOfCurrentMeta ==
  root # Nil =>
    \A n \in Subtree(Mem, root) :
      /\ heap[n].meta.hash = Json(heap[n].meta)
      /\ heap[n].children # Nil =>
            /\ Len(heap[n].meta.refs) = Cardinality(Entries(Mem, n))
            /\ {heap[n].meta.refs[i] : i \in 1..Len(heap[n].meta.refs)}
                 = {heap[e[2]].meta.hash : e \in Entries(Mem, n)}

\* C33: compareIndex, on the index of the working tree and the index of the
\* latest remote root, lists every path but the root at most once: Added holds
\* the remote entries whose path the local index lacks, Conflicted the remote
\* entries whose path the local index has under another hash,
\* DeletedCandidates the local entries whose path the remote index lacks; a
\* path both have under one hash and the root path are in none of the three,
\* and no path is in two of them
C33_CompareIndexClassifies ==
  (phase = "run" /\ root # Nil /\ HasKv(rkv)) =>
    \A down \in BOOLEAN :
      LET li == BuildLocalIndex(Mem, root, <<>>)
          l == li.idx
          r == RemoteIndex(Latest(rkv).ref, <<>>)
          diff == CompareIndex(l, r, down)
          Set(sq) == {sq[i] : i \in 1..Len(sq)}
          Paths(idx) == {e[1] : e \in idx}
          A == Paths(Set(diff.Added))
          C == Paths(Set(diff.Conflicted))
          D == Paths(Set(diff.DeletedCandidates))
      IN li.s.res = "ok" =>
           /\ Len(diff.Added) = Cardinality(A)
           /\ Len(diff.Conflicted) = Cardinality(C)
           /\ Len(diff.DeletedCandidates) = Cardinality(D)
           /\ A = (Paths(r) \ Paths(l)) \ {<<>>}
           /\ D = (Paths(l) \ Paths(r)) \ {<<>>}
           /\ C = {p \in (Paths(l) \cap Paths(r)) \ {<<>>} :
                     \E x \in l, y \in r : x[1] = p /\ y[1] = p /\ x[2] # y[2]}
           /\ Set(diff.Added) \cup Set(diff.Conflicted) \subseteq r
           /\ Set(diff.DeletedCandidates) \subseteq l
           /\ A \cap C = {} /\ A \cap D = {} /\ C \cap D = {}
           /\ \A p \in A \cup C \cup D : p # <<>>
           /\ \A e \in l \cap r : e[1] \notin A \cup C \cup D

\* a state whose two indexes differ at the root and give compareIndex a path
\* of each kind: one added, one in conflict, one candidate for deletion and
\* one both sides hold under the same hash
C33_Witness ==
  /\ phase = "run" /\ root # Nil /\ HasKv(rkv)
  /\ LET li == BuildLocalIndex(Mem, root, <<>>)
         r == RemoteIndex(Latest(rkv).ref, <<>>)
         diff == CompareIndex(li.idx, r, TRUE)
     IN /\ li.s.res = "ok"
        /\ diff.Added # <<>> /\ diff.Conflicted # <<>>
        /\ diff.DeletedCandidates # <<>>
        /\ \E e \in li.idx \cap r : e[1] # <<>>
        /\ \E x \in li.idx, y \in r : x[1] = <<>> /\ y[1] = <<>> /\ x # y

\* C34: DeletedCandidates never lists a path before a path with more
\* segments, so a path below a listed directory comes before that directory
C34_DeepestFirst ==
  (phase = "run" /\ root # Nil /\ HasKv(rkv)) =>
    \A down \in BOOLEAN :
      LET li == BuildLocalIndex(Mem, root, <<>>)
          dc == CompareIndex(li.idx, RemoteIndex(Latest(rkv).ref, <<>>),
                             down).DeletedCandidates
          Under(p, q) == Len(p) > Len(q) /\ SubSeq(p, 1, Len(q)) = q
      IN li.s.res = "ok" =>
           \A i \in 1..Len(dc), j \in 1..Len(dc) :
             /\ i < j => Len(dc[i][1]) >= Len(dc[j][1])
             /\ Under(dc[i][1], dc[j][1]) => i < j

\* the working tree holds a directory and a node below it that the remote
\* tree lacks, and the walk over the local index meets the directory first
C34_Witness ==
  /\ phase = "run" /\ root # Nil /\ HasKv(rkv)
  /\ LET li == BuildLocalIndex(Mem, root, <<>>)
         r == RemoteIndex(Latest(rkv).ref, <<>>)
         gone == Ranged({e \in li.idx : e[1] # <<>> /\ ~HasPath(r, e[1])}, FALSE)
         dc == CompareIndex(li.idx, r, FALSE).DeletedCandidates
     IN /\ li.s.res = "ok"
        /\ Len(gone) >= 2 /\ Len(gone[1][1]) < Len(gone[2][1])
        /\ SubSeq(gone[2][1], 1, Len(gone[1][1])) = gone[1][1]
        /\ dc # gone

\* C35: on a mutable mount a Write of the bytes D at an offset up to the
\* length L of the buffer returns without error, sets the dirty flag and
\* leaves a buffer of the length max(L, offset + |D|) that holds D from the
\* offset on and the bytes it held everywhere else; and a Write whose offset
\* plus |D| is above the largest int is answered with EFBIG
C35_WriteAtOffset ==
  /\ [][(last'.op = "Write" /\ last'.kind = "toolarge" /\ ~immutable)
          => last'.res = "efbig"]_vars
  /\ []((phase = "run" /\ ~immutable) =>
          \A f \in KnownFiles(Mem), b \in Bytes, maxInt \in maxInts :
            \A off \in 0..Len(heap[f].buf) :
              LET old == heap[f].buf
                  w == WriteOp(Mem, f, off, <<b>>, maxInt)
                  new == w.heap[f].buf
              IN heap[f].openCount > 0 =>
                   /\ w.res = "ok" /\ w.heap[f].updated
                   /\ Len(new) = IF off + 1 > Len(old) THEN off + 1
                                  ELSE Len(old)
                   /\ new[off + 1] = b
                   /\ \A i \in 1..Len(old) : i # off + 1 => new[i] = old[i])

\* C36: when Setxattr has made a directory public and has returned without
\* error, a file the next Create makes in that directory carries the public
\* flag
C36_CreatedInPublicDirIsPublic ==
  (phase = "run" /\ ~immutable) =>
    \A d \in KnownDirs(Mem), name \in FileNames, ord \in Orders :
      LET pub == DirSetxattrOp(Mem, d, "public", "1", immutable, ord)
          made == CreateOp(pub, d, name, ord)
      IN (pub.res = "ok" /\ made.res = "ok"
            /\ ~HasChild(EnsureLoaded(pub, d), d, name))
           => IsPublic(made.heap[ChildOf(made, d, name)].meta)

\* C37: the parent of every node a directory of the working tree holds in
\* its child map is that directory (a Dir object with that very map)
C37_ParentHoldsChild ==
  root # Nil =>
    \A d \in Subtree(Mem, root) : \A e \in Entries(Mem, d) :
      /\ heap[e[2]].parent # Nil
      /\ heap[heap[e[2]].parent].children = heap[d].children

\* C38: on a mutable mount, when Setxattr of a name that is not virtual has
\* returned without error on a directory, Getxattr of that name on the
\* directory returns the value that was set
C38_DirXattrRoundTrip ==
  (phase = "run" /\ ~immutable) =>
    \A d \in KnownDirs(Mem), name \in XNames \cup {"user.comment"},
       value \in XValues, ord \in Orders :
      LET set == DirSetxattrOp(Mem, d, name, value, immutable, ord)
      IN (name \notin VirtualXAttrs /\ set.res = "ok")
           => HandleGetxattr(set.heap[d].meta, name) = <<"xattr", value>>

\* C39: an Open that returns an error leaves the count of open handles of
\* the file and the count of open descriptors of the filesystem what they
\* were before the call
C39_FailedOpenKeepsCounts ==
  /\ [][(last'.op = "Open" /\ last'.res # "ok") => fds' = fds]_vars
  /\ [](phase = "run" =>
          \A f \in KnownFiles(Mem), fails \in BOOLEAN :
            LET o == OpenWith(Mem, f, fails)
            IN o.res # "ok" => /\ o.heap[f].openCount = heap[f].openCount
                               /\ o.fds = fds)

\* C40: a Pull that directly follows a Pull that has merged or has adopted
\* newer remote records without error starts with the latest record of the
\* remote track in the mirror track, returns without error and leaves the
\* working tree, the two Mounts, the WIP track and the mirror track as they
\* were
C40_PullTwice ==
  [][(last.op = "Pull" /\ last.res = "ok" /\ last.kind \in {"forward", "merge"}
        /\ last'.op = "Pull")
       => /\ LatestVersion(mirror) = LatestVersion(rkv)
          /\ last'.res = "ok"
          /\ WorkingTree' = WorkingTree
          /\ wip' = wip /\ mirror' = mirror
          /\ Len(local') = Len(local) /\ Len(remote') = Len(remote)
          /\ \A i \in 1..Len(local) :
               [local'[i] EXCEPT !.node = Nil] = [local[i] EXCEPT !.node = Nil]
          /\ \A i \in 1..Len(remote) :
               [remote'[i] EXCEPT !.node = Nil] = [remote[i] EXCEPT !.node = Nil]
     ]_vars

====
